---------------------------- MODULE Spec2Model ----------------------------
(***************************************************************************)
(* A model of blippingmenace/aims-course-csv.                              *)
(*                                                                         *)
(*   src/get_slots.py             fetches slot rows in batches, with       *)
(*                                retries, aggregates them by              *)
(*                                (rcid, slotId, slotCd) and writes        *)
(*                                slots.json and slots.csv                 *)
(*   src/combine_courses_slots.py merges the course metadata, the          *)
(*                                heuristic segment and slots.json         *)
(*                                                                         *)
(* Python strings are sequences of code points (<<49, 48>> is "10"), so    *)
(* that strip(), isdigit(), int() and string ordering are computed.        *)
(***************************************************************************)
EXTENDS Integers, Sequences, FiniteSets, TLC

(***************************************************************************)
(* Bounds of the model.                                                    *)
(***************************************************************************)
\* longest list of rows one response holds
MaxRows == 2
\* largest --retries value tried (the smallest is -1)
MaxRetries == 1
\* largest --batch-size value tried (the smallest is -1)
MaxBatch == 2
\* most rows of the course CSV files read by get_slots
MaxCourses == 2

(***************************************************************************)
(* Strings.                                                                *)
(***************************************************************************)
\* the characters str.strip() removes (ASCII part)
Whitespace == {9, 10, 11, 12, 13, 28, 29, 30, 31, 32}

RECURSIVE lstrip(_)
lstrip(s) ==
    IF s = <<>> THEN <<>>
    ELSE IF Head(s) \in Whitespace THEN lstrip(Tail(s)) ELSE s

RECURSIVE rstrip(_)
rstrip(s) ==
    IF s = <<>> THEN <<>>
    ELSE IF s[Len(s)] \in Whitespace THEN rstrip(SubSeq(s, 1, Len(s) - 1)) ELSE s

\* str.strip()
strip(s) == rstrip(lstrip(s))

\* str.isdigit(), on ASCII
isdigit(s) == s # <<>> /\ \A i \in 1..Len(s) : s[i] \in 48..57

\* int(s) of a string of decimal digits
RECURSIVE int(_)
int(s) ==
    IF s = <<>> THEN 0
    ELSE 10 * int(SubSeq(s, 1, Len(s) - 1)) + (s[Len(s)] - 48)

\* str(n) of a natural number
RECURSIVE str_of_int(_)
str_of_int(n) ==
    IF n < 10 THEN <<48 + n>>
    ELSE str_of_int(n \div 10) \o <<48 + (n % 10)>>

\* a < b on Python strings: lexicographic on code points
RECURSIVE str_lt(_, _)
str_lt(a, b) ==
    IF b = <<>> THEN FALSE
    ELSE IF a = <<>> THEN TRUE
    ELSE IF Head(a) # Head(b) THEN Head(a) < Head(b)
    ELSE str_lt(Tail(a), Tail(b))

\* sorted(S) of a set of strings
RECURSIVE sorted_strings(_)
sorted_strings(S) ==
    IF S = {} THEN <<>>
    ELSE LET m == CHOOSE x \in S : \A y \in S : ~str_lt(y, x)
         IN  <<m>> \o sorted_strings(S \ {m})

(***************************************************************************)
(* JSON values of a response row, and what the row loop makes of them.     *)
(***************************************************************************)
JNull == [t |-> "null"]
JStr(s) == [t |-> "str", s |-> s]
JNum(n) == [t |-> "num", n |-> n]

\* Python truthiness of a JSON scalar
truthy(v) ==
    CASE v.t = "null" -> FALSE
      [] v.t = "str"  -> v.s # <<>>
      [] v.t = "num"  -> v.n # 0

\* str(v) of a JSON scalar
str(v) ==
    CASE v.t = "null" -> <<78, 111, 110, 101>>
      [] v.t = "str"  -> v.s
      [] v.t = "num"  -> str_of_int(v.n)

\* str(it.get(k, "") or "").strip()
field(it, k) ==
    LET v == IF k \in DOMAIN it.fields THEN it.fields[k] ELSE JStr(<<>>)
    IN  strip(IF truthy(v) THEN str(v) ELSE <<>>)

\* a JSON object of the response list, and an element that is not an object
Obj(f) == [isdict |-> TRUE, fields |-> f]
NonObj == [isdict |-> FALSE, fields |-> <<>>]

(***************************************************************************)
(* The aggregation: slot_map[key] is a set of day/time strings,            *)
(* segment_map[key] a segment name.                                        *)
(***************************************************************************)
EmptyMap == [k \in {} |-> {}]

row_key(it) ==
    <<field(it, "runningCourseId"), field(it, "courseSlotId"), field(it, "courseSlotCd")>>

\* (mutant) the day/time check is forgotten: if not rcid: continue
row_skipped_rcid_only(it) == field(it, "runningCourseId") = <<>>

\* the row is skipped: if not rcid or not day_time: continue
row_skipped(it) ==
    field(it, "runningCourseId") = <<>> \/ field(it, "slotPeriodCdDays") = <<>>

\* (mutant) the day/times are kept in a list: a day/time already there is kept a
\* second time, which shows as the joined entry "d | d"
slot_map_add_list(sm, key, day_time) ==
    [k \in DOMAIN sm \cup {key} |->
        IF k = key
        THEN IF key \in DOMAIN sm
             THEN sm[key] \cup {IF day_time \in sm[key]
                                THEN day_time \o <<32, 124, 32>> \o day_time
                                ELSE day_time}
             ELSE {day_time}
        ELSE sm[k]]

\* slot_map[key].add(day_time) on a defaultdict(set)
slot_map_add(sm, key, day_time) ==
    [k \in DOMAIN sm \cup {key} |->
        IF k = key
        THEN (IF key \in DOMAIN sm THEN sm[key] ELSE {}) \cup {day_time}
        ELSE sm[k]]

\* (mutant) the last segment name wins: if seg_name: segment_map[key] = seg_name
segment_map_set_overwrite(gm, key, seg_name) ==
    IF seg_name # <<>>
    THEN [k \in DOMAIN gm \cup {key} |-> IF k = key THEN seg_name ELSE gm[k]]
    ELSE gm

\* (mutant) the truth test of seg_name is missing: an empty name is recorded
segment_map_set_any(gm, key, seg_name) ==
    IF key \notin DOMAIN gm
    THEN [k \in DOMAIN gm \cup {key} |-> IF k = key THEN seg_name ELSE gm[k]]
    ELSE gm

\* if seg_name and key not in segment_map: segment_map[key] = seg_name
segment_map_set(gm, key, seg_name) ==
    IF seg_name # <<>> /\ key \notin DOMAIN gm
    THEN [k \in DOMAIN gm \cup {key} |-> IF k = key THEN seg_name ELSE gm[k]]
    ELSE gm

(***************************************************************************)
(* chunked(values, n), for n > 0: the list of the batches it yields.       *)
(***************************************************************************)
\* (mutant) the last, shorter batch is dropped: range(0, len(values) - n + 1, n)
RECURSIVE chunked_from_full_only(_, _, _)
chunked_from_full_only(values, n, i) ==
    IF i + n > Len(values) THEN <<>>
    ELSE <<SubSeq(values, i + 1, i + n)>> \o chunked_from_full_only(values, n, i + n)

\* for i in range(0, len(values), n): yield values[i : i + n]   (i from 0)
RECURSIVE chunked_from(_, _, _)
chunked_from(values, n, i) ==
    IF i >= Len(values) THEN <<>>
    ELSE <<SubSeq(values, i + 1, IF i + n < Len(values) THEN i + n ELSE Len(values))>>
         \o chunked_from(values, n, i + n)

chunked(values, n) == chunked_from(values, n, 0)

\* total_batches = (len(rcids) + batch_size - 1) // batch_size, batch_size > 0
total_batches_of(len, bs) == (len + bs - 1) \div bs


(***************************************************************************)
(* read_courses: the rows of the course CSV files, in order, to the        *)
(* mapping rcid -> CourseMeta.  A Python dict keeps insertion order, so    *)
(* the mapping is the sequence of its CourseMeta values.                   *)
(***************************************************************************)
CourseMeta(rcid, ccode, cname) == [rcid |-> rcid, ccode |-> ccode, cname |-> cname]

\* (mutant) the membership test is missing: a later row of an id is recorded again
has_rcid_never(courses_, rcid) == FALSE

\* rcid in courses
has_rcid(courses_, rcid) == \E i \in 1..Len(courses_) : courses_[i].rcid = rcid

RECURSIVE read_courses_from(_, _)
read_courses_from(rows, courses_) ==
    IF rows = <<>> THEN courses_
    ELSE LET row  == Head(rows)
             rcid == strip(row.rcid)
         IN  IF rcid = <<>> \/ has_rcid(courses_, rcid)
             THEN read_courses_from(Tail(rows), courses_)
             ELSE read_courses_from(Tail(rows),
                     Append(courses_, CourseMeta(rcid, strip(row.ccode), strip(row.cname))))

read_courses(rows) == read_courses_from(rows, <<>>)

\* courses.get(rcid, CourseMeta(rcid=rcid, ccode="", cname=""))
courses_get(courses_, rcid) ==
    IF has_rcid(courses_, rcid)
    THEN courses_[CHOOSE i \in 1..Len(courses_) : courses_[i].rcid = rcid]
    ELSE CourseMeta(rcid, <<>>, <<>>)

\* the sort key  int(x) if x.isdigit() else x  orders a before b
rcid_key_lt(a, b) ==
    IF isdigit(a) /\ isdigit(b) THEN int(a) < int(b) ELSE str_lt(a, b)

\* comparing the keys of a and b raises TypeError: one is an int, the other a str
rcid_key_mixed(a, b) == isdigit(a) # isdigit(b)

\* sorted(): a stable insertion of x into the sorted list s
RECURSIVE insert_rcid(_, _)
insert_rcid(x, s) ==
    IF s = <<>> THEN <<x>>
    ELSE IF rcid_key_lt(x, Head(s)) THEN <<x>> \o s
    ELSE <<Head(s)>> \o insert_rcid(x, Tail(s))

RECURSIVE sorted_rcids(_)
sorted_rcids(s) ==
    IF s = <<>> THEN <<>>
    ELSE insert_rcid(s[Len(s)], sorted_rcids(SubSeq(s, 1, Len(s) - 1)))

\* list(courses.keys())
course_keys(courses_) == [i \in 1..Len(courses_) |-> courses_[i].rcid]

\* sorted(courses.keys(), key=...) raises TypeError
rcid_sort_fails(courses_) ==
    \E i, j \in 1..Len(courses_) : rcid_key_mixed(courses_[i].rcid, courses_[j].rcid)

(***************************************************************************)
(* The outputs of get_slots.                                               *)
(***************************************************************************)
NoFile == [exists |-> FALSE]

\* (mutant) the slots are ordered by slot code alone
slot_lt_by_code(a, b) == str_lt(a.courseSlotCd, b.courseSlotCd)

\* (courseSlotId, courseSlotCd) of a before that of b, as Python tuples of str
slot_lt(a, b) ==
    IF a.courseSlotId # b.courseSlotId
    THEN str_lt(a.courseSlotId, b.courseSlotId)
    ELSE str_lt(a.courseSlotCd, b.courseSlotCd)

RECURSIVE sorted_slots(_)
sorted_slots(S) ==
    IF S = {} THEN <<>>
    ELSE LET m == CHOOSE x \in S : \A y \in S : ~slot_lt(y, x)
         IN  <<m>> \o sorted_slots(S \ {m})

\* the slot entries of one rcid, then slots.sort(key=(courseSlotId, courseSlotCd))
json_slots(sm, gm, rcid) ==
    sorted_slots({ [courseSlotId     |-> k[2],
                    courseSlotCd     |-> k[3],
                    segName          |-> IF k \in DOMAIN gm THEN gm[k] ELSE <<>>,
                    slotPeriodCdDays |-> sorted_strings(sm[k])]
                   : k \in {q \in DOMAIN sm : q[1] = rcid} })

\* (mutant) only the courses of the CSV files are written
build_json_known_only(sm, gm, courses_) ==
    [rcid \in {k[1] : k \in DOMAIN sm} \cap {courses_[i].rcid : i \in 1..Len(courses_)} |->
        [rcid   |-> rcid,
         ccode  |-> courses_get(courses_, rcid).ccode,
         cname  |-> courses_get(courses_, rcid).cname,
         slots  |-> json_slots(sm, gm, rcid)]]

\* out_json: rcid -> {rcid, ccode, cname, slots}
build_json(sm, gm, courses_) ==
    [rcid \in {k[1] : k \in DOMAIN sm} |->
        [rcid   |-> rcid,
         ccode  |-> courses_get(courses_, rcid).ccode,
         cname  |-> courses_get(courses_, rcid).cname,
         slots  |-> json_slots(sm, gm, rcid)]]

\* column names: "rcid", "ccode", "cname", "cegName", "slotPeriodCdDays",
\* "courseSlotId", "courseSlotCd", "segName"
n_rcid == <<114, 99, 105, 100>>
n_ccode == <<99, 99, 111, 100, 101>>
n_cname == <<99, 110, 97, 109, 101>>
n_cegName == <<99, 101, 103, 78, 97, 109, 101>>
n_slotPeriodCdDays ==
    <<115, 108, 111, 116, 80, 101, 114, 105, 111, 100, 67, 100, 68, 97, 121, 115>>
n_courseSlotId == <<99, 111, 117, 114, 115, 101, 83, 108, 111, 116, 73, 100>>
n_courseSlotCd == <<99, 111, 117, 114, 115, 101, 83, 108, 111, 116, 67, 100>>
n_segName == <<115, 101, 103, 78, 97, 109, 101>>

\* the fieldnames of the slot CSV, and the keys of the dict passed to writerow
csv_fieldnames == <<n_rcid, n_ccode, n_cname, n_cegName, n_slotPeriodCdDays>>
csv_row_keys ==
    {n_rcid, n_ccode, n_cname, n_courseSlotId, n_courseSlotCd, n_segName, n_slotPeriodCdDays}

\* DictWriter.writerow raises ValueError: the dict has keys that are no fieldnames
writerow_raises(fieldnames, keys) ==
    keys \ {fieldnames[i] : i \in 1..Len(fieldnames)} # {}

\* sorted(slot_map.keys(), key=...) raises TypeError
csv_sort_fails(sm) ==
    \E a, b \in DOMAIN sm : rcid_key_mixed(a[1], b[1])

(***************************************************************************)
(* Inputs.                                                                 *)
(***************************************************************************)
\* sequences over S of length at most n
RECURSIVE SeqsUpTo(_, _)
SeqsUpTo(S, n) ==
    IF n = 0 THEN {<<>>}
    ELSE LET shorter == SeqsUpTo(S, n - 1)
         IN  shorter \cup {Append(s, x) : s \in {q \in shorter : Len(q) = n - 1}, x \in S}

\* a row of a course CSV file; strtdt and enddt are date strings
CsvRow(rcid, ccode, cname, strtdt, enddt) ==
    [rcid |-> rcid, ccode |-> ccode, cname |-> cname, coordname |-> <<80>>,
     ccrd |-> <<51>>, strtdt |-> strtdt, enddt |-> enddt]

\* "05 Jan, 2026 00:00", "09 Feb, 2026 00:00", "10 Feb, 2026 00:00", "20 Mar, 2026 00:00"
d_jan_05 == <<48, 53, 32, 74, 97, 110, 44, 32, 50, 48, 50, 54, 32, 48, 48, 58, 48, 48>>
d_feb_09 == <<48, 57, 32, 70, 101, 98, 44, 32, 50, 48, 50, 54, 32, 48, 48, 58, 48, 48>>
d_feb_10 == <<49, 48, 32, 70, 101, 98, 44, 32, 50, 48, 50, 54, 32, 48, 48, 58, 48, 48>>
d_mar_20 == <<50, 48, 32, 77, 97, 114, 44, 32, 50, 48, 50, 54, 32, 48, 48, 58, 48, 48>>

\* "courses.csv", "courses2.csv", "courses3.csv", "courses4.csv", "extra.csv"
f_courses == <<99, 111, 117, 114, 115, 101, 115, 46, 99, 115, 118>>
f_courses2 == <<99, 111, 117, 114, 115, 101, 115, 50, 46, 99, 115, 118>>
f_courses3 == <<99, 111, 117, 114, 115, 101, 115, 51, 46, 99, 115, 118>>
f_courses4 == <<99, 111, 117, 114, 115, 101, 115, 52, 46, 99, 115, 118>>
f_extra == <<101, 120, 116, 114, 97, 46, 99, 115, 118>>

\* a working directory with one course file (two: OneFile(..) @@ OneFile(..))
OneFile(name, rows) == [n \in {name} |-> rows]

\* course CSV rows: "2"/"B", "10 "/"A", "x"/"C", and one with a blank rcid
CoursePool ==
    { CsvRow(<<50>>, <<66>>, <<98>>, d_jan_05, d_feb_09),
      CsvRow(<<49, 48, 32>>, <<65>>, <<97>>, <<>>, <<>>),
      CsvRow(<<120>>, <<67>>, <<99>>, d_feb_10, d_mar_20),
      CsvRow(<<32>>, <<68>>, <<100>>, <<>>, <<>>) }

SlotRow(rcid, slot_id, slot_cd, day_time) ==
    [runningCourseId |-> rcid, courseSlotId |-> slot_id,
     courseSlotCd |-> slot_cd, slotPeriodCdDays |-> day_time]

\* a row with a segName member
WithSeg(row, seg) ==
    [k \in DOMAIN row \cup {"segName"} |-> IF k = "segName" THEN seg ELSE row[k]]

\* the elements a response list may hold
RowPool ==
    { \* rcid 2 (a number), slot S/A, "M", segName "2"
      Obj(WithSeg(SlotRow(JNum(2), JStr(<<83>>), JStr(<<65>>), JStr(<<77>>)), JStr(<<50>>))),
      \* rcid "2 ", slot S/A, "M", segName "3": the same key, another segment name
      Obj(WithSeg(SlotRow(JStr(<<50, 32>>), JStr(<<83>>), JStr(<<65>>), JStr(<<77>>)), JStr(<<51>>))),
      \* rcid "2", slot S/A, "T", no segName member
      Obj(SlotRow(JStr(<<50>>), JStr(<<83>>), JStr(<<65>>), JStr(<<84>>))),
      \* rcid "10", slot R/B, "M", segName " "
      Obj(WithSeg(SlotRow(JStr(<<49, 48>>), JStr(<<82>>), JStr(<<66>>), JStr(<<77>>)), JStr(<<32>>))),
      \* rcid 0 (falsy), "M", segName "2": skipped
      Obj(WithSeg(SlotRow(JNum(0), JStr(<<83>>), JStr(<<65>>), JStr(<<77>>)), JStr(<<50>>))),
      \* rcid "2", day/time " ", segName "3": skipped
      Obj(WithSeg(SlotRow(JStr(<<50>>), JStr(<<83>>), JStr(<<65>>), JStr(<<32>>)), JStr(<<51>>))),
      \* an element that is not an object
      NonObj }

\* what urlopen and resp.read() raise on a transport failure (lines 109-110): an HTTP
\* error status, a connection that cannot be made, a timeout; and, as raised while the
\* response is read (urlopen wraps only the errors of sending the request): a peer that
\* closes without answering, a status line that is not HTTP, a header line that is too
\* long, a body cut short, a status line of another protocol version ("HTTP/2.0"),
\* more than 100 header lines (a plain HTTPException), a TLS failure, and any other
\* error of the socket
TransportErrors ==
    {"HTTPError", "URLError", "TimeoutError",
     "ConnectionResetError", "BadStatusLine", "LineTooLong", "IncompleteRead",
     "UnknownProtocol", "HTTPException", "SSLError", "OSError"}

\* post_timetable: what it raises ("none": it returns value).  json.loads (line 113)
\* raises JSONDecodeError on a body that is no JSON, and RecursionError on a body,
\* JSON or not, whose brackets nest deeper than the interpreter's recursion limit
post_timetable(reply) ==
    CASE reply.t = "failure"  -> [raises |-> reply.e, value |-> <<>>]
      [] reply.t = "not_json" -> [raises |-> "JSONDecodeError", value |-> <<>>]
      [] reply.t = "too_deep" -> [raises |-> "RecursionError", value |-> <<>>]
      [] reply.t = "not_list" -> [raises |-> "ValueError", value |-> <<>>]
      [] reply.t = "list"     -> [raises |-> "none", value |-> reply.parsed]

\* (mutant) the except clause names the network errors only
CaughtErrors_network_only == {"HTTPError", "URLError", "TimeoutError"}

\* the exceptions the batch loop's except clause names
CaughtErrors == {"HTTPError", "URLError", "TimeoutError", "ValueError", "JSONDecodeError"}

(***************************************************************************)
(* get_slots.main as a state machine.                                      *)
(***************************************************************************)
VARIABLES
    student_id,     \* args.student_id or the environment's
    cookie,         \* args.cookie or the environment's
    batch_size,     \* args.batch_size
    retries,        \* args.retries
    csv_paths,      \* args.csv_paths: the --csv options in order, <<>> when none is given
    course_files,   \* the CSV files of the working directory: name -> rows
    remote,         \* the elements the remote endpoint's response lists are made of
    pc,             \* where main is
    rc,             \* "running", main's return value "0" or "2", or "raised"
    exc,            \* the exception that ended main, or "none"
    courses,        \* read_courses(csv_paths)
    rcids,          \* the sorted course ids
    total_batches,
    batches,        \* what chunked(rcids, batch_size) yields
    batch_index,
    attempt,
    ex,             \* the exception the latest attempt of the batch raised, or "none"
    items,          \* the list post_timetable returned
    idx,            \* the position of the row loop in items (from 1)
    slot_map,
    segment_map,
    out_json_file,  \* slots.json
    out_csv_file,   \* slots.csv
    called,         \* post_timetable has been called (history)
    failed_batches, \* the batches the ERROR line was printed for (history)
    fetched,        \* the elements of the responses whose row loop completed (history)
    sleeps,         \* the inter-batch sleeps (line 251) done so far
    warns,          \* the WARN lines printed for the batch in progress
    errors,         \* the ERROR lines printed for the batch in progress
    m_pc,           \* where combine_courses_slots is ("idle": not started)
    m_courses,      \* its courses, in insertion order
    m_slots_map,    \* its slots_map: rcid -> slot code
    m_segment_map,  \* its segment_map: rcid -> segment name
    m_exc,          \* the exception that ended it, or "none"
    out_table       \* courses_with_slots.csv

merge_vars == <<m_pc, m_courses, m_slots_map, m_segment_map, m_exc, out_table>>

vars == <<student_id, cookie, batch_size, retries, csv_paths, course_files, pc, rc, exc, courses,
          rcids, total_batches, batches, batch_index, attempt, ex, items, idx,
          slot_map, segment_map, out_json_file, out_csv_file, called, failed_batches, fetched,
          remote, sleeps, warns, errors,
          m_pc, m_courses, m_slots_map, m_segment_map, m_exc, out_table>>

config_vars == <<student_id, cookie, batch_size, retries, csv_paths, course_files, remote>>
loop_vars == <<total_batches, batches, batch_index, attempt, ex, items, idx>>
agg_vars == <<slot_map, segment_map>>
file_vars == <<out_json_file, out_csv_file>>
hist_vars == <<called, failed_batches, fetched>>
log_vars == <<sleeps, warns, errors>>

\* Path.cwd().glob("courses*.csv")
glob_courses(name) ==
    /\ Len(name) >= 11
    /\ SubSeq(name, 1, 7) = <<99, 111, 117, 114, 115, 101, 115>>
    /\ SubSeq(name, Len(name) - 3, Len(name)) = <<46, 99, 115, 118>>

\* lines 191-196: the --csv paths, or the sorted courses*.csv of the working directory
get_slots_paths(csv_paths_, files) ==
    IF csv_paths_ # <<>> THEN csv_paths_
    ELSE sorted_strings({name \in DOMAIN files : glob_courses(name)})

\* line 80: ['courses.csv', 'courses2.csv', 'courses3.csv']
merge_paths == <<f_courses, f_courses2, f_courses3>>

\* the rows of the files of a list of paths that exist, in reading order
RECURSIVE read_rows(_, _)
read_rows(paths, files) ==
    IF paths = <<>> THEN <<>>
    ELSE (IF Head(paths) \in DOMAIN files THEN files[Head(paths)] ELSE <<>>)
         \o read_rows(Tail(paths), files)

\* the rows get_slots reads
course_rows == read_rows(get_slots_paths(csv_paths, course_files), course_files)

\* the rows combine_courses_slots reads
m_course_rows == read_rows(merge_paths, course_files)

\* the list a response body may parse to
Responses == SeqsUpTo(remote, MaxRows)

\* what the remote call comes back with: a transport failure, or a body that is not
\* JSON, nests too deep to be parsed, is JSON but no list, or is a list
Replies ==
    {[t |-> "failure", e |-> e] : e \in TransportErrors}
    \cup {[t |-> "not_json"], [t |-> "too_deep"], [t |-> "not_list"]}
    \cup {[t |-> "list", parsed |-> l] : l \in Responses}

\* the working directories and --csv options get_slots is started with: courses.csv
\* alone and no option; courses2.csv and courses.csv; an option that names extra.csv
\* twice and a file that does not exist, next to a courses.csv; no file at all
Directories ==
    {[paths |-> <<>>, files |-> OneFile(f_courses, rows)] :
        rows \in SeqsUpTo(CoursePool, MaxCourses)}
    \cup { [paths |-> <<>>,
            files |-> (OneFile(f_courses2, <<CsvRow(<<50>>, <<66>>, <<98>>, d_jan_05, d_feb_09)>>)
                        @@ OneFile(f_courses, <<CsvRow(<<49, 48, 32>>, <<65>>, <<97>>, <<>>, <<>>)>>))],
          [paths |-> <<f_extra, f_courses4, f_extra>>,
            files |-> (OneFile(f_extra, <<CsvRow(<<120>>, <<67>>, <<99>>, d_feb_10, d_mar_20)>>)
                        @@ OneFile(f_courses, <<CsvRow(<<50>>, <<66>>, <<98>>, d_jan_05, d_feb_09)>>))],
          [paths |-> <<>>, files |-> <<>>] }

Init ==
    /\ student_id \in {<<>>, <<55>>}
    /\ cookie \in {<<>>, <<99>>}
    /\ batch_size \in -1..MaxBatch
    /\ retries \in -1..MaxRetries
    /\ \E d \in Directories : csv_paths = d.paths /\ course_files = d.files
    /\ remote = RowPool
    /\ pc = "creds"
    /\ rc = "running"
    /\ exc = "none"
    /\ courses = <<>>
    /\ rcids = <<>>
    /\ total_batches = 0
    /\ batches = <<>>
    /\ batch_index = 0
    /\ attempt = 0
    /\ ex = "none"
    /\ items = <<>>
    /\ idx = 0
    /\ slot_map = EmptyMap
    /\ segment_map = EmptyMap
    /\ out_json_file = NoFile
    /\ out_csv_file = NoFile
    /\ called = FALSE
    /\ failed_batches = {}
    /\ fetched = {}
    /\ sleeps = 0
    /\ warns = 0
    /\ errors = 0
    /\ m_pc = "idle"
    /\ m_courses = <<>>
    /\ m_slots_map = EmptyMap
    /\ m_segment_map = EmptyMap
    /\ m_exc = "none"
    /\ out_table = NoFile

\* return code
Return(code) == pc' = "exit" /\ rc' = code /\ exc' = "none"

\* an exception nothing catches
Raise(e) == pc' = "exit" /\ rc' = "raised" /\ exc' = e

Goto(l) == pc' = l /\ UNCHANGED <<rc, exc>>

\* (mutant) the cookie is not checked
credentials_missing_no_cookie(student_id_, cookie_) == student_id_ = <<>>

\* if not student_id: return 2 ... if not cookie: return 2
credentials_missing(student_id_, cookie_) == student_id_ = <<>> \/ cookie_ = <<>>

\* lines 181-189: the credentials
CheckCredentials ==
    /\ pc = "creds"
    /\ IF credentials_missing(student_id, cookie) THEN Return("2") ELSE Goto("load")
    /\ UNCHANGED <<config_vars, courses, rcids, loop_vars, agg_vars, file_vars, hist_vars>>
    /\ UNCHANGED log_vars
    /\ UNCHANGED merge_vars

\* lines 198-202: the course ids
LoadCourses ==
    /\ pc = "load"
    /\ courses' = read_courses(course_rows)
    /\ IF rcid_sort_fails(courses')
       THEN Raise("TypeError") /\ UNCHANGED rcids
       ELSE /\ rcids' = sorted_rcids(course_keys(courses'))
            /\ IF rcids' = <<>> THEN Return("2") ELSE Goto("begin")
    /\ UNCHANGED <<config_vars, loop_vars, agg_vars, file_vars, hist_vars>>
    /\ UNCHANGED log_vars
    /\ UNCHANGED merge_vars

\* chunked: if n <= 0: raise ValueError
chunked_raises(n) == n <= 0

\* lines 210-212: total_batches, and the first batch chunked yields
BeginLoop ==
    /\ pc = "begin"
    /\ IF batch_size = 0
       THEN Raise("ZeroDivisionError")
            /\ UNCHANGED <<total_batches, batches, batch_index>>
       ELSE IF chunked_raises(batch_size)
       THEN Raise("ValueError")
            /\ UNCHANGED <<total_batches, batches, batch_index>>
       ELSE /\ total_batches' = total_batches_of(Len(rcids), batch_size)
            /\ batches' = chunked(rcids, batch_size)
            /\ batch_index' = 1
            /\ Goto("attempt")
    /\ attempt' = 0
    /\ UNCHANGED <<config_vars, courses, rcids, ex, items, idx, agg_vars, file_vars,
                   hist_vars>>
    /\ UNCHANGED log_vars
    /\ UNCHANGED merge_vars

\* lines 214-223: an attempt whose post_timetable returns a list
PostOk ==
    /\ pc = "attempt"
    /\ attempt' = attempt + 1
    /\ called' = TRUE
    /\ \E reply \in Replies :
          /\ post_timetable(reply).raises = "none"
          /\ items' = post_timetable(reply).value
    /\ ex' = "none"
    /\ idx' = 1
    /\ Goto("rows")
    /\ UNCHANGED <<config_vars, courses, rcids, total_batches, batches, batch_index,
                   agg_vars, file_vars, failed_batches, fetched>>
    /\ UNCHANGED log_vars
    /\ UNCHANGED merge_vars

\* the except clause: attempt <= args.retries + 1
retry_allowed(attempt_, retries_) == attempt_ <= retries_ + 1

\* (mutant) the ERROR line is printed before the retry test, for every failed attempt
PostFail_error_every_attempt ==
    /\ pc = "attempt"
    /\ attempt' = attempt + 1
    /\ called' = TRUE
    /\ \E reply \in Replies :
          /\ post_timetable(reply).raises # "none"
          /\ ex' = post_timetable(reply).raises
    /\ IF ex' \notin CaughtErrors
       THEN Raise(ex') /\ UNCHANGED <<failed_batches, warns, errors>>
       ELSE IF retry_allowed(attempt', retries)
       THEN Goto("attempt") /\ warns' = warns + 1 /\ errors' = errors + 1
            /\ UNCHANGED failed_batches
       ELSE /\ Goto("sleep")
            /\ errors' = errors + 1
            /\ failed_batches' = failed_batches \cup {batch_index}
            /\ UNCHANGED warns
    /\ UNCHANGED <<config_vars, courses, rcids, total_batches, batches, batch_index,
                   items, idx, agg_vars, file_vars, fetched, sleeps>>
    /\ UNCHANGED merge_vars

\* lines 214-223, 243-249: an attempt whose post_timetable raises
PostFail ==
    /\ pc = "attempt"
    /\ attempt' = attempt + 1
    /\ called' = TRUE
    /\ \E reply \in Replies :
          /\ post_timetable(reply).raises # "none"
          /\ ex' = post_timetable(reply).raises
    /\ IF ex' \notin CaughtErrors
       THEN Raise(ex') /\ UNCHANGED <<failed_batches, warns, errors>>
       ELSE IF retry_allowed(attempt', retries)
       THEN Goto("attempt") /\ warns' = warns + 1 /\ UNCHANGED <<failed_batches, errors>>
       ELSE /\ Goto("sleep")
            /\ errors' = errors + 1
            /\ failed_batches' = failed_batches \cup {batch_index}
            /\ UNCHANGED warns
    /\ UNCHANGED <<config_vars, courses, rcids, total_batches, batches, batch_index,
                   items, idx, agg_vars, file_vars, fetched, sleeps>>
    /\ UNCHANGED merge_vars

\* lines 225-238: one row of the response
ProcessItem ==
    /\ pc = "rows"
    /\ idx <= Len(items)
    /\ LET it == items[idx]
       IN  IF ~it.isdict
           THEN Raise("AttributeError") /\ UNCHANGED <<idx, agg_vars>>
           ELSE /\ Goto("rows")
                /\ idx' = idx + 1
                /\ IF row_skipped(it)
                   THEN UNCHANGED agg_vars
                   ELSE /\ slot_map' = slot_map_add(slot_map, row_key(it),
                                                    field(it, "slotPeriodCdDays"))
                        /\ segment_map' = segment_map_set(segment_map, row_key(it),
                                                          field(it, "segName"))
    /\ UNCHANGED <<config_vars, courses, rcids, total_batches, batches, batch_index,
                   attempt, ex, items, file_vars, hist_vars>>
    /\ UNCHANGED log_vars
    /\ UNCHANGED merge_vars

\* lines 240-241: the row loop is over, the batch is fetched
EndRows ==
    /\ pc = "rows"
    /\ idx > Len(items)
    /\ fetched' = fetched \cup {items[i] : i \in 1..Len(items)}
    /\ Goto("sleep")
    /\ UNCHANGED <<config_vars, courses, rcids, loop_vars, agg_vars, file_vars, called,
                   failed_batches>>
    /\ UNCHANGED log_vars
    /\ UNCHANGED merge_vars

\* (mutant) the sleep is inside the try block: a batch given up is not followed by it
NextBatch_sleep_on_success_only ==
    /\ pc = "sleep"
    /\ sleeps' = IF errors > 0 THEN sleeps ELSE sleeps + 1
    /\ IF batch_index < Len(batches)
       THEN /\ batch_index' = batch_index + 1
            /\ attempt' = 0
            /\ warns' = 0 /\ errors' = 0
            /\ Goto("attempt")
       ELSE UNCHANGED <<batch_index, warns, errors, attempt>> /\ Goto("json")
    /\ ex' = "none"
    /\ UNCHANGED <<config_vars, courses, rcids, total_batches, batches, items, idx,
                   agg_vars, file_vars, hist_vars>>
    /\ UNCHANGED merge_vars

\* line 251, and the for statement's next batch (line 212: attempt = 0); after the
\* last batch attempt keeps the number of calls of that batch, and ex is unbound
NextBatch ==
    /\ pc = "sleep"
    /\ sleeps' = sleeps + 1
    /\ IF batch_index < Len(batches)
       THEN /\ batch_index' = batch_index + 1
            /\ attempt' = 0
            /\ warns' = 0 /\ errors' = 0
            /\ Goto("attempt")
       ELSE UNCHANGED <<batch_index, warns, errors, attempt>> /\ Goto("json")
    /\ ex' = "none"
    /\ UNCHANGED <<config_vars, courses, rcids, total_batches, batches, items, idx,
                   agg_vars, file_vars, hist_vars>>
    /\ UNCHANGED merge_vars

\* lines 254-275: slots.json
WriteJson ==
    /\ pc = "json"
    /\ out_json_file' = [exists |-> TRUE, data |-> build_json(slot_map, segment_map, courses)]
    /\ Goto("csv")
    /\ UNCHANGED <<config_vars, courses, rcids, loop_vars, agg_vars, out_csv_file,
                   hist_vars>>
    /\ UNCHANGED log_vars
    /\ UNCHANGED merge_vars

\* lines 278-309: slots.csv
WriteCsv ==
    /\ pc = "csv"
    /\ out_csv_file' = [exists |-> TRUE, header |-> csv_fieldnames, rows |-> <<>>]
    /\ IF csv_sort_fails(slot_map) THEN Raise("TypeError")
       ELSE IF DOMAIN slot_map # {} /\ writerow_raises(csv_fieldnames, csv_row_keys)
       THEN Raise("ValueError")
       ELSE Return("0")
    /\ UNCHANGED <<config_vars, courses, rcids, loop_vars, agg_vars, out_json_file,
                   hist_vars>>
    /\ UNCHANGED log_vars
    /\ UNCHANGED merge_vars

Next ==
    \/ CheckCredentials
    \/ LoadCourses
    \/ BeginLoop
    \/ PostOk
    \/ PostFail
    \/ ProcessItem
    \/ EndRows
    \/ NextBatch
    \/ WriteJson
    \/ WriteCsv

Spec == Init /\ [][Next]_vars

\* main is one sequential process: while a step is possible, one is taken
SpecFair == Spec /\ WF_vars(Next)

(***************************************************************************)
(* combine_courses_slots.py: parse_date and determine_segment.             *)
(* A datetime is <<year, month, day, hour, minute>>; None is <<>>.         *)
(***************************************************************************)
None == <<>>

\* the first n characters of s, and s without them
take(s, n) == SubSeq(s, 1, IF n < Len(s) THEN n ELSE Len(s))
drop(s, n) == IF n >= Len(s) THEN <<>> ELSE SubSeq(s, n + 1, Len(s))

\* how many leading characters of s are in C
RECURSIVE span(_, _)
span(s, C) == IF s = <<>> \/ Head(s) \notin C THEN 0 ELSE 1 + span(Tail(s), C)

\* str.lower(), on ASCII
lower(s) == [i \in 1..Len(s) |-> IF s[i] \in 65..90 THEN s[i] + 32 ELSE s[i]]

\* the abbreviated month names %b matches, whatever the case
month_names ==
    << <<106, 97, 110>>, <<102, 101, 98>>, <<109, 97, 114>>, <<97, 112, 114>>,
       <<109, 97, 121>>, <<106, 117, 110>>, <<106, 117, 108>>, <<97, 117, 103>>,
       <<115, 101, 112>>, <<111, 99, 116>>, <<110, 111, 118>>, <<100, 101, 99>> >>

\* the month a three-letter name is, 0 when it is none
month_of(name) ==
    IF \E m \in 1..12 : month_names[m] = lower(name)
    THEN CHOOSE m \in 1..12 : month_names[m] = lower(name)
    ELSE 0

is_leap(y) == (y % 4 = 0 /\ y % 100 # 0) \/ y % 400 = 0

days_in_month(y, m) ==
    IF m = 2 THEN (IF is_leap(y) THEN 29 ELSE 28)
    ELSE IF m \in {4, 6, 9, 11} THEN 30 ELSE 31

\* datetime.strptime(date_str.strip(), '%d %b, %Y %H:%M'), None when it raises
parse_date(date_str) ==
    LET digits == 48..57
        s   == strip(date_str)
        nd  == span(s, digits)
        d   == int(take(s, nd))
        s1  == drop(s, nd)
        w1  == span(s1, Whitespace)
        s2  == drop(s1, w1)
        b   == month_of(take(s2, 3))
        s3  == drop(s2, 3)
        s4  == drop(s3, 1)
        w2  == span(s4, Whitespace)
        s5  == drop(s4, w2)
        ny  == span(s5, digits)
        y   == int(take(s5, 4))
        s6  == drop(s5, 4)
        w3  == span(s6, Whitespace)
        s7  == drop(s6, w3)
        nh  == span(s7, digits)
        h   == int(take(s7, nh))
        s8  == drop(s7, nh)
        s9  == drop(s8, 1)
        nm  == span(s9, digits)
        mi  == int(take(s9, nm))
    IN  IF /\ nd \in {1, 2} /\ d \in 1..31
           /\ w1 >= 1
           /\ Len(s2) >= 3 /\ b # 0
           /\ s3 # <<>> /\ Head(s3) = 44
           /\ w2 >= 1
           /\ ny = 4 /\ y >= 1
           /\ w3 >= 1
           /\ nh \in {1, 2} /\ h <= 23
           /\ s8 # <<>> /\ Head(s8) = 58
           /\ nm \in {1, 2} /\ mi <= 59 /\ Len(s9) = nm
           /\ d <= days_in_month(y, b)
        THEN <<y, b, d, h, mi>>
        ELSE None

\* a <= b on datetimes
RECURSIVE tuple_le(_, _)
tuple_le(a, b) ==
    IF a = <<>> THEN TRUE
    ELSE IF Head(a) # Head(b) THEN Head(a) < Head(b)
    ELSE tuple_le(Tail(a), Tail(b))

dt_le(a, b) == tuple_le(a, b)

\* the segment boundaries
jan_05 == <<2026, 1, 5, 0, 0>>
feb_09 == <<2026, 2, 9, 0, 0>>
feb_10 == <<2026, 2, 10, 0, 0>>
feb_26 == <<2026, 2, 26, 0, 0>>
mar_09 == <<2026, 3, 9, 0, 0>>
mar_20 == <<2026, 3, 20, 0, 0>>
mar_23 == <<2026, 3, 23, 0, 0>>
apr_27 == <<2026, 4, 27, 0, 0>>

\* (mutant) the boundaries of the start buckets are exclusive
start_seg_of_exclusive(start_dt) ==
    IF ~dt_le(jan_05, start_dt) THEN 1
    ELSE IF ~dt_le(feb_10, start_dt) THEN 2
    ELSE IF ~dt_le(feb_26, start_dt) THEN 3
    ELSE IF ~dt_le(mar_23, start_dt) THEN 4
    ELSE 5

start_seg_of(start_dt) ==
    IF dt_le(start_dt, jan_05) THEN 1
    ELSE IF dt_le(start_dt, feb_10) THEN 2
    ELSE IF dt_le(start_dt, feb_26) THEN 3
    ELSE IF dt_le(start_dt, mar_23) THEN 4
    ELSE 5

end_seg_of(end_dt) ==
    IF dt_le(end_dt, feb_09) THEN 2
    ELSE IF dt_le(end_dt, mar_09) THEN 3
    ELSE IF dt_le(end_dt, mar_20) THEN 4
    ELSE IF dt_le(end_dt, apr_27) THEN 6
    ELSE 6

\* determine_segment: "" or f"{start_seg}-{end_seg}"
determine_segment(start_dt, end_dt) ==
    IF start_dt = None \/ end_dt = None THEN <<>>
    ELSE str_of_int(start_seg_of(start_dt)) \o <<45>> \o str_of_int(end_seg_of(end_dt))

(***************************************************************************)
(* combine_courses_slots.py: the courses, the slot files and the merge.    *)
(***************************************************************************)
\* lines 79-108: the courses, the first row of an rcid kept, in insertion order
RECURSIVE merge_read_courses(_, _)
merge_read_courses(rows, courses_) ==
    IF rows = <<>> THEN courses_
    ELSE LET row  == Head(rows)
             rcid == strip(row.rcid)
         IN  IF rcid = <<>> \/ has_rcid(courses_, rcid)
             THEN merge_read_courses(Tail(rows), courses_)
             ELSE merge_read_courses(Tail(rows),
                     Append(courses_,
                            [rcid      |-> rcid,
                             ccode     |-> strip(row.ccode),
                             cname     |-> strip(row.cname),
                             coordname |-> strip(row.coordname),
                             ccrd      |-> strip(row.ccrd),
                             segment   |-> determine_segment(parse_date(strip(row.strtdt)),
                                                             parse_date(strip(row.enddt))),
                             slots     |-> <<>>]))

\* (mutant) the first non-empty string: a later slot does not replace an earlier one
RECURSIVE last_nonempty_first_wins(_)
last_nonempty_first_wins(ss) ==
    IF ss = <<>> THEN <<>>
    ELSE IF Head(ss) # <<>> THEN Head(ss)
    ELSE last_nonempty_first_wins(Tail(ss))

\* the last non-empty string of a list of strings, "" when there is none
RECURSIVE last_nonempty(_)
last_nonempty(ss) ==
    IF ss = <<>> THEN <<>>
    ELSE IF ss[Len(ss)] # <<>> THEN ss[Len(ss)]
    ELSE last_nonempty(SubSeq(ss, 1, Len(ss) - 1))

\* lines 116-123: what the slots of slots.json leave in slots_map and segment_map
json_slot_cds(data, rcid) ==
    [i \in 1..Len(data[rcid].slots) |-> strip(data[rcid].slots[i].courseSlotCd)]
json_seg_names(data, rcid) ==
    [i \in 1..Len(data[rcid].slots) |-> strip(data[rcid].slots[i].segName)]

json_slots_map(data) ==
    [rcid \in {r \in DOMAIN data : last_nonempty(json_slot_cds(data, r)) # <<>>} |->
        last_nonempty(json_slot_cds(data, rcid))]
json_segment_map(data) ==
    [rcid \in {r \in DOMAIN data : last_nonempty(json_seg_names(data, r)) # <<>>} |->
        last_nonempty(json_seg_names(data, rcid))]

\* sub in s
contains(sub, s) ==
    \E i \in 0..(Len(s) - Len(sub)) : SubSeq(s, i + 1, i + Len(sub)) = sub

\* the key None, under which csv.DictReader puts the cells beyond the header's last name
NoneKey == <<-1>>

\* the distinct strings of a list, in the order of their first occurrence
RECURSIVE unique(_)
unique(s) ==
    IF s = <<>> THEN <<>>
    ELSE LET u == unique(SubSeq(s, 1, Len(s) - 1))
         IN  IF \E i \in 1..Len(u) : u[i] = s[Len(s)] THEN u ELSE Append(u, s[Len(s)])

\* csv.DictReader, row.keys(): dict(zip(fieldnames, row)) holds every name of the header
\* once (a short row is filled up with None values), then None when the row is longer
dict_keys(header, row) ==
    unique(header) \o (IF Len(row) > Len(header) THEN <<NoneKey>> ELSE <<>>)

\* row.get(key) or '': a name the header repeats holds its last cell; a cell the row
\* lacks is None; so is a key the dict lacks
csv_get(header, row, key) ==
    LET hits == {i \in 1..Len(header) : header[i] = key}
        last == CHOOSE i \in hits : \A j \in hits : j <= i
    IN  IF hits = {} THEN <<>>
        ELSE IF last > Len(row) THEN <<>>
        ELSE row[last]

\* next((k for k in row.keys() if sub in k), default), k lowered first when fold is set:
\* the first key that contains sub, the default when there is none; the search raises
\* when it reaches the key None (None.lower(): AttributeError; sub in None: TypeError)
RECURSIVE first_key(_, _, _, _, _)
first_key(keys, sub, fold, default, i) ==
    IF i > Len(keys) THEN [raises |-> "none", key |-> default]
    ELSE IF keys[i] = NoneKey
         THEN [raises |-> IF fold THEN "AttributeError" ELSE "TypeError", key |-> default]
    ELSE IF contains(sub, IF fold THEN lower(keys[i]) ELSE keys[i])
         THEN [raises |-> "none", key |-> keys[i]]
    ELSE first_key(keys, sub, fold, default, i + 1)

\* d[key] = value
map_set(d, key, value) ==
    [k \in DOMAIN d \cup {key} |-> IF k = key THEN value ELSE d[k]]

\* lines 129-142: the rows of slots.csv (DictReader passes over an empty row);
\* maps is [slots |-> slots_map, segs |-> segment_map, raises |-> "none"], and raises
\* names the exception that ended the loop
RECURSIVE csv_load(_, _, _)
csv_load(header, rows, maps) ==
    IF rows = <<>> THEN maps
    ELSE LET row      == Head(rows)
             keys     == dict_keys(header, row)
             rcid_key == first_key(keys, n_rcid, TRUE, n_rcid, 1)
             slot_key == first_key(keys, n_courseSlotCd, FALSE, n_courseSlotCd, 1)
             seg_key  == first_key(keys, n_segName, FALSE, n_segName, 1)
             rcid     == strip(csv_get(header, row, rcid_key.key))
             slot     == strip(csv_get(header, row, slot_key.key))
             segment  == strip(csv_get(header, row, seg_key.key))
             next     == IF rcid = <<>> THEN maps
                         ELSE [maps EXCEPT
                                  !.slots = IF slot # <<>> THEN map_set(maps.slots, rcid, slot)
                                            ELSE maps.slots,
                                  !.segs  = IF segment # <<>>
                                            THEN map_set(maps.segs, rcid, segment)
                                            ELSE maps.segs]
         IN  IF row = <<>> THEN csv_load(header, Tail(rows), maps)
             ELSE IF rcid_key.raises # "none" THEN [maps EXCEPT !.raises = rcid_key.raises]
             ELSE IF slot_key.raises # "none" THEN [maps EXCEPT !.raises = slot_key.raises]
             ELSE IF seg_key.raises # "none" THEN [maps EXCEPT !.raises = seg_key.raises]
             ELSE csv_load(header, Tail(rows), next)

\* (mutant) the segment computed from the dates is kept when there is one
merged_segment_heuristic_first(course, segment_map_) ==
    IF course.segment = <<>> /\ course.rcid \in DOMAIN segment_map_
    THEN segment_map_[course.rcid]
    ELSE course.segment

\* lines 149-150: if rcid in segment_map: course['segment'] = segment_map[rcid]
merged_segment(course, segment_map_) ==
    IF course.rcid \in DOMAIN segment_map_ THEN segment_map_[course.rcid] ELSE course.segment

\* (mutant) the slot is looked up under the course code
merged_slots_by_ccode(course, slots_map_) ==
    IF course.ccode \in DOMAIN slots_map_ THEN slots_map_[course.ccode] ELSE course.slots

\* lines 146-147: if rcid in slots_map: course['slots'] = slots_map[rcid]
merged_slots(course, slots_map_) ==
    IF course.rcid \in DOMAIN slots_map_ THEN slots_map_[course.rcid] ELSE course.slots

\* sorted(courses.values(), key=lambda x: x['ccode']): a stable insertion
\* (mutant) a numeric-aware order: a shorter code first, "A9" before "A10"
RECURSIVE insert_by_ccode_natural(_, _)
insert_by_ccode_natural(x, s) ==
    IF s = <<>> THEN <<x>>
    ELSE IF \/ Len(x.ccode) < Len(Head(s).ccode)
            \/ Len(x.ccode) = Len(Head(s).ccode) /\ str_lt(x.ccode, Head(s).ccode)
         THEN <<x>> \o s
    ELSE <<Head(s)>> \o insert_by_ccode_natural(x, Tail(s))

RECURSIVE insert_by_ccode(_, _)
insert_by_ccode(x, s) ==
    IF s = <<>> THEN <<x>>
    ELSE IF str_lt(x.ccode, Head(s).ccode) THEN <<x>> \o s
    ELSE <<Head(s)>> \o insert_by_ccode(x, Tail(s))

RECURSIVE sorted_by_ccode(_)
sorted_by_ccode(s) ==
    IF s = <<>> THEN <<>>
    ELSE insert_by_ccode(s[Len(s)], sorted_by_ccode(SubSeq(s, 1, Len(s) - 1)))

\* the row written for a course
table_row(course) ==
    [ccode |-> course.ccode, cname |-> course.cname, coordname |-> course.coordname,
     ccrd |-> course.ccrd, segment |-> course.segment, slots |-> course.slots]

fetch_vars == <<config_vars, pc, rc, exc, courses, rcids, loop_vars, agg_vars, file_vars,
                hist_vars, log_vars>>

\* lines 79-108
M_ReadCourses ==
    /\ m_pc = "courses"
    /\ m_courses' = merge_read_courses(m_course_rows, <<>>)
    /\ m_pc' = "slots_json"
    /\ UNCHANGED <<fetch_vars, m_slots_map, m_segment_map, m_exc, out_table>>

\* lines 111-123
M_LoadSlotsJson ==
    /\ m_pc = "slots_json"
    /\ IF out_json_file.exists
       THEN /\ m_slots_map' = json_slots_map(out_json_file.data)
            /\ m_segment_map' = json_segment_map(out_json_file.data)
       ELSE UNCHANGED <<m_slots_map, m_segment_map>>
    /\ m_pc' = "slots_csv"
    /\ UNCHANGED <<fetch_vars, m_courses, m_exc, out_table>>

\* lines 126-142; an exception of the key searches ends the script
M_LoadSlotsCsv ==
    /\ m_pc = "slots_csv"
    /\ IF m_slots_map = EmptyMap /\ out_csv_file.exists
       THEN LET maps == csv_load(out_csv_file.header, out_csv_file.rows,
                                 [slots |-> m_slots_map, segs |-> m_segment_map,
                                  raises |-> "none"])
            IN  /\ m_slots_map' = maps.slots
                /\ m_segment_map' = maps.segs
                /\ m_exc' = maps.raises
                /\ m_pc' = IF maps.raises # "none" THEN "exit" ELSE "merge"
       ELSE /\ m_pc' = "merge"
            /\ UNCHANGED <<m_slots_map, m_segment_map, m_exc>>
    /\ UNCHANGED <<fetch_vars, m_courses, out_table>>

\* lines 145-150
M_Merge ==
    /\ m_pc = "merge"
    /\ m_courses' = [i \in 1..Len(m_courses) |->
                        [m_courses[i] EXCEPT
                            !.slots = merged_slots(m_courses[i], m_slots_map),
                            !.segment = merged_segment(m_courses[i], m_segment_map)]]
    /\ m_pc' = "write"
    /\ UNCHANGED <<fetch_vars, m_slots_map, m_segment_map, m_exc, out_table>>

\* lines 153-167
M_Write ==
    /\ m_pc = "write"
    /\ out_table' = [exists |-> TRUE,
                     rows |-> LET sorted_courses == sorted_by_ccode(m_courses)
                              IN  [i \in 1..Len(sorted_courses) |-> table_row(sorted_courses[i])]]
    /\ m_pc' = "exit"
    /\ UNCHANGED <<fetch_vars, m_courses, m_slots_map, m_segment_map, m_exc>>

NextMerge ==
    \/ M_ReadCourses
    \/ M_LoadSlotsJson
    \/ M_LoadSlotsCsv
    \/ M_Merge
    \/ M_Write

(***************************************************************************)
(* The merge on its own: combine_courses_slots.py started on course CSV    *)
(* rows, a slots.json that get_slots wrote (or none) and a slots.csv (or   *)
(* none).  get_slots is not running: its variables stay as they start.     *)
(***************************************************************************)
\* most rows of the course CSV files read by the merge
MaxMergeCourses == 3
\* most slot rows aggregated into the slots.json the merge reads
MaxMergeRows == 2

\* "23 Mar, 2026 00:01", "27 Apr, 2026 00:00"
d_mar_23_0001 == <<50, 51, 32, 77, 97, 114, 44, 32, 50, 48, 50, 54, 32, 48, 48, 58, 48, 49>>
d_apr_27 == <<50, 55, 32, 65, 112, 114, 44, 32, 50, 48, 50, 54, 32, 48, 48, 58, 48, 48>>

\* "2"/"A9" dated 1-2, "10"/"A10" undated, "2"/"C" again dated 2-4, "3"/"A10" dated 5-6
MergeCoursePool ==
    { CsvRow(<<50>>, <<65, 57>>, <<98>>, d_jan_05, d_feb_09),
      CsvRow(<<49, 48>>, <<65, 49, 48>>, <<97>>, <<>>, <<45>>),
      CsvRow(<<50, 32>>, <<67>>, <<99>>, d_feb_10, d_mar_20),
      CsvRow(<<51>>, <<65, 49, 48>>, <<100>>, d_mar_23_0001, d_apr_27) }

\* slot rows: course 2 slot S/A segName "3"; course 2 slot R/B no segName;
\* course 2 slot T/"" segName "4"; course 10 slot S/"" segName ""; course 9 slot S/A segName "2"
MergeRowPool ==
    { Obj(WithSeg(SlotRow(JNum(2), JStr(<<83>>), JStr(<<65>>), JStr(<<77>>)), JStr(<<51>>))),
      Obj(SlotRow(JStr(<<50>>), JStr(<<82>>), JStr(<<66>>), JStr(<<84>>))),
      Obj(WithSeg(SlotRow(JStr(<<50>>), JStr(<<84>>), JNull, JStr(<<77>>)), JStr(<<52>>))),
      Obj(WithSeg(SlotRow(JStr(<<49, 48>>), JStr(<<83>>), JStr(<<>>), JStr(<<77>>)), JStr(<<>>))),
      Obj(WithSeg(SlotRow(JNum(9), JStr(<<83>>), JStr(<<65>>), JStr(<<77>>)), JStr(<<50>>))) }

\* the row loop of get_slots over a list of row objects, from empty maps
RECURSIVE aggregate(_, _)
aggregate(rows, maps) ==
    IF rows = <<>> THEN maps
    ELSE LET it == Head(rows)
         IN  aggregate(Tail(rows),
                IF row_skipped(it) THEN maps
                ELSE [sm |-> slot_map_add(maps.sm, row_key(it), field(it, "slotPeriodCdDays")),
                      gm |-> segment_map_set(maps.gm, row_key(it), field(it, "segName"))])

\* the slots.json get_slots writes from these rows
JsonOf(rows, course_rows_) ==
    LET maps == aggregate(rows, [sm |-> EmptyMap, gm |-> EmptyMap])
    IN  [exists |-> TRUE, data |-> build_json(maps.sm, maps.gm, read_courses(course_rows_))]

\* slots.csv: none, the one get_slots writes, and files written by hand:
\* columns "RCID", "courseSlotCd", "segName" with the row "10", "Z", "6";
\* the same columns with the row "3", "", "7";
\* the same columns with a row of four cells, an empty row and a row of two cells;
\* columns "rcid", "rcid", "courseSlotCd", "segName", "segName" with the row
\* "2", "10", "Z", "6", "";
\* columns "id", "courseSlotCd", "segName" with a row of three cells and one of four;
\* the columns get_slots writes with a row of six cells
SlotCsvFiles ==
    { NoFile,
      [exists |-> TRUE, header |-> csv_fieldnames, rows |-> <<>>],
      [exists |-> TRUE, header |-> <<<<82, 67, 73, 68>>, n_courseSlotCd, n_segName>>,
       rows |-> << <<<<49, 48>>, <<90>>, <<54>>>> >>],
      [exists |-> TRUE, header |-> <<<<82, 67, 73, 68>>, n_courseSlotCd, n_segName>>,
       rows |-> << <<<<51>>, <<>>, <<55>>>> >>],
      [exists |-> TRUE, header |-> <<<<82, 67, 73, 68>>, n_courseSlotCd, n_segName>>,
       rows |-> << <<<<49, 48>>, <<90>>, <<54>>, <<120>>>>, <<>>, <<<<51>>, <<87>>>> >>],
      [exists |-> TRUE, header |-> <<n_rcid, n_rcid, n_courseSlotCd, n_segName, n_segName>>,
       rows |-> << <<<<50>>, <<49, 48>>, <<90>>, <<54>>, <<>>>> >>],
      [exists |-> TRUE, header |-> <<<<105, 100>>, n_courseSlotCd, n_segName>>,
       rows |-> << <<<<50>>, <<90>>, <<54>>>>, <<<<50>>, <<90>>, <<54>>, <<120>>>> >>],
      [exists |-> TRUE, header |-> csv_fieldnames,
       rows |-> << <<<<50>>, <<65, 57>>, <<98>>, <<51>>, <<77>>, <<120>>>> >>] }

\* the working directories of the merge: the rows in courses.csv; the first row in
\* courses3.csv and the others in courses.csv, which is read first; and courses.csv
\* next to a courses4.csv, which the merge does not read
MergeDirectories ==
    {OneFile(f_courses, rows) : rows \in SeqsUpTo(MergeCoursePool, MaxMergeCourses)}
    \cup {(OneFile(f_courses3, <<Head(rows)>>) @@ OneFile(f_courses, Tail(rows))) :
             rows \in SeqsUpTo(MergeCoursePool, MaxMergeCourses) \ {<<>>}}
    \cup {(OneFile(f_courses, <<CsvRow(<<49, 48>>, <<65, 49, 48>>, <<97>>, <<>>, <<45>>)>>)
                        @@ OneFile(f_courses4, <<CsvRow(<<50>>, <<65, 57>>, <<98>>, d_jan_05, d_feb_09)>>))}

InitMerge ==
    /\ student_id = <<55>>
    /\ cookie = <<99>>
    /\ batch_size = 1
    /\ retries = 0
    /\ csv_paths = <<>>
    /\ course_files \in MergeDirectories
    /\ remote = {}
    /\ pc = "creds"
    /\ rc = "running"
    /\ exc = "none"
    /\ courses = <<>>
    /\ rcids = <<>>
    /\ total_batches = 0
    /\ batches = <<>>
    /\ batch_index = 0
    /\ attempt = 0
    /\ ex = "none"
    /\ items = <<>>
    /\ idx = 0
    /\ slot_map = EmptyMap
    /\ segment_map = EmptyMap
    /\ out_json_file \in {NoFile} \cup {JsonOf(rows, course_rows) :
                                          rows \in SeqsUpTo(MergeRowPool, MaxMergeRows)}
    /\ out_csv_file \in SlotCsvFiles
    /\ called = FALSE
    /\ failed_batches = {}
    /\ fetched = {}
    /\ sleeps = 0
    /\ warns = 0
    /\ errors = 0
    /\ m_pc = "courses"
    /\ m_courses = <<>>
    /\ m_slots_map = EmptyMap
    /\ m_segment_map = EmptyMap
    /\ m_exc = "none"
    /\ out_table = NoFile

SpecMerge == InitMerge /\ [][NextMerge]_vars

(***************************************************************************)
(* The pipeline: get_slots, then combine_courses_slots in the same         *)
(* directory once get_slots has ended, on the files it left.  The courses  *)
(* are 101/CS101 and 102/CS102 without dates, 103/CS103 dated "1-2", and   *)
(* in some runs a later row that names 101 again with another code; the    *)
(* remote endpoint holds a row of 101 (slot S1, segName "2"), a row of 102 *)
(* (slot S2, segName ""), a row of 999, a course no CSV file names, and    *)
(* two more rows of 101: another day of slot S1 and another slot.          *)
(***************************************************************************)
c_101 == CsvRow(<<49, 48, 49>>, <<67, 83, 49, 48, 49>>, <<97>>, <<>>, <<>>)
c_102 == CsvRow(<<49, 48, 50>>, <<67, 83, 49, 48, 50>>, <<98>>, <<>>, <<>>)
c_103 == CsvRow(<<49, 48, 51>>, <<67, 83, 49, 48, 51>>, <<99>>, d_jan_05, d_feb_09)
\* "101 " again, code "CS000"
c_101_again == CsvRow(<<49, 48, 49, 32>>, <<67, 83, 48, 48, 48>>, <<100>>, d_feb_10, d_mar_20)

\* a row whose rcid cell is blank
c_blank == CsvRow(<<32>>, <<67, 83, 57, 57, 57>>, <<101>>, d_jan_05, d_feb_09)

\* runningCourseId 101, slot 1/"S1", "Mon-Tue", segName "2"
r_101 == Obj(WithSeg(SlotRow(JNum(101), JNum(1), JStr(<<83, 49>>),
                             JStr(<<77, 111, 110, 45, 84, 117, 101>>)), JStr(<<50>>)))
\* runningCourseId 102, slot 2/"S2", "Wed", segName ""
r_102 == Obj(WithSeg(SlotRow(JNum(102), JNum(2), JStr(<<83, 50>>),
                             JStr(<<87, 101, 100>>)), JStr(<<>>)))
\* runningCourseId 999, slot 3/"S3", "Thu", segName "4"
r_999 == Obj(WithSeg(SlotRow(JNum(999), JNum(3), JStr(<<83, 51>>),
                             JStr(<<84, 104, 117>>)), JStr(<<52>>)))

\* runningCourseId "101", slot 1/"S1" again, "Fri", segName "5"
r_101_fri == Obj(WithSeg(SlotRow(JStr(<<49, 48, 49>>), JStr(<<49>>), JStr(<<83, 49>>),
                                 JStr(<<70, 114, 105>>)), JStr(<<53>>)))
\* runningCourseId "101", slot 10/"S0", "Thu", no segName member
r_101_s0 == Obj(SlotRow(JStr(<<49, 48, 49>>), JNum(10), JStr(<<83, 48>>),
                        JStr(<<84, 104, 117>>)))

\* the working directories and --csv options of the pipeline.  No option: courses.csv
\* with the three courses; the second row of 101 before the
\* first, over two files; rows without an rcid; courses.csv and a courses4.csv, which
\* get_slots reads and the merge does not.  And --csv extra.csv next to a courses.csv
PipelineDirectories ==
    { [paths |-> <<>>, files |-> OneFile(f_courses, <<c_101, c_102, c_103>>)],
      [paths |-> <<>>, files |-> (OneFile(f_courses2, <<c_102, c_103>>)
                        @@ OneFile(f_courses, <<c_101_again, c_101>>))],
      [paths |-> <<>>, files |-> OneFile(f_courses, <<c_blank, c_101, c_102, c_blank, c_103>>)],
      [paths |-> <<>>, files |-> (OneFile(f_courses, <<c_101, c_102>>) @@ OneFile(f_courses4, <<c_103>>))],
      [paths |-> <<f_extra>>, files |-> (OneFile(f_extra, <<c_101, c_102>>)
                        @@ OneFile(f_courses, <<c_103, c_101_again>>))] }

\* python3 combine_courses_slots.py, once get_slots.py has ended
M_Start ==
    /\ m_pc = "idle"
    /\ pc = "exit"
    /\ m_pc' = "courses"
    /\ UNCHANGED <<fetch_vars, m_courses, m_slots_map, m_segment_map, m_exc, out_table>>

InitPipeline ==
    /\ student_id = <<55>>
    /\ cookie = <<99>>
    /\ batch_size = 2
    /\ retries \in {-1, 0, 1}
    /\ \E d \in PipelineDirectories : csv_paths = d.paths /\ course_files = d.files
    /\ remote = {r_101, r_102, r_999, r_101_fri, r_101_s0}
    /\ pc = "creds"
    /\ rc = "running"
    /\ exc = "none"
    /\ courses = <<>>
    /\ rcids = <<>>
    /\ total_batches = 0
    /\ batches = <<>>
    /\ batch_index = 0
    /\ attempt = 0
    /\ ex = "none"
    /\ items = <<>>
    /\ idx = 0
    /\ slot_map = EmptyMap
    /\ segment_map = EmptyMap
    /\ out_json_file = NoFile
    /\ out_csv_file = NoFile
    /\ called = FALSE
    /\ failed_batches = {}
    /\ fetched = {}
    /\ sleeps = 0
    /\ warns = 0
    /\ errors = 0
    /\ m_pc = "idle"
    /\ m_courses = <<>>
    /\ m_slots_map = EmptyMap
    /\ m_segment_map = EmptyMap
    /\ m_exc = "none"
    /\ out_table = NoFile

NextPipeline ==
    \/ Next
    \/ M_Start
    \/ NextMerge

SpecPipeline == InitPipeline /\ [][NextPipeline]_vars

(***************************************************************************)
(* determine_segment on its own: the merge reads one course whose start    *)
(* and end dates are each a boundary date at 00:00, the minute after it,   *)
(* a date before the first or after the last boundary, an empty cell or a  *)
(* cell that is no date.                                                   *)
(***************************************************************************)
\* "Jan", "Feb", "Mar", "Apr", "Dec"
mon_jan == <<74, 97, 110>>
mon_feb == <<70, 101, 98>>
mon_mar == <<77, 97, 114>>
mon_apr == <<65, 112, 114>>
mon_dec == <<68, 101, 99>>

\* n as two digits
two_digits(n) == <<48 + (n \div 10), 48 + (n % 10)>>

\* "dd Mon, yyyy hh:mm", the format of the strtdt and enddt cells
date_cell(d, mon, y, h, mi) ==
    two_digits(d) \o <<32>> \o mon \o <<44, 32>> \o str_of_int(y) \o <<32>>
        \o two_digits(h) \o <<58>> \o two_digits(mi)

BoundaryDays ==
    { <<5, mon_jan>>, <<9, mon_feb>>, <<10, mon_feb>>, <<26, mon_feb>>,
      <<9, mon_mar>>, <<20, mon_mar>>, <<23, mon_mar>>, <<27, mon_apr>> }

DateCells ==
    {date_cell(b[1], b[2], 2026, 0, mi) : b \in BoundaryDays, mi \in {0, 1}}
    \cup { date_cell(31, mon_dec, 2025, 23, 59), date_cell(28, mon_apr, 2027, 0, 0),
           <<>>, <<45>> }

InitSegment ==
    /\ student_id = <<55>>
    /\ cookie = <<99>>
    /\ batch_size = 1
    /\ retries = 0
    /\ \E strtdt \in DateCells, enddt \in DateCells :
          course_files = OneFile(f_courses, <<CsvRow(<<50>>, <<65>>, <<97>>, strtdt, enddt)>>)
    /\ csv_paths = <<>>
    /\ remote = {}
    /\ pc = "creds"
    /\ rc = "running"
    /\ exc = "none"
    /\ courses = <<>>
    /\ rcids = <<>>
    /\ total_batches = 0
    /\ batches = <<>>
    /\ batch_index = 0
    /\ attempt = 0
    /\ ex = "none"
    /\ items = <<>>
    /\ idx = 0
    /\ slot_map = EmptyMap
    /\ segment_map = EmptyMap
    /\ out_json_file = NoFile
    /\ out_csv_file = NoFile
    /\ called = FALSE
    /\ failed_batches = {}
    /\ fetched = {}
    /\ sleeps = 0
    /\ warns = 0
    /\ errors = 0
    /\ m_pc = "courses"
    /\ m_courses = <<>>
    /\ m_slots_map = EmptyMap
    /\ m_segment_map = EmptyMap
    /\ m_exc = "none"
    /\ out_table = NoFile

NextSegment == M_ReadCourses

SpecSegment == InitSegment /\ [][NextSegment]_vars

(***************************************************************************)
(* chunked and total_batches on their own: main at line 210, for every     *)
(* sorted list of up to MaxIds distinct ids and every batch size.          *)
(***************************************************************************)
\* most course ids of a list given to chunked
MaxIds == 5
\* largest batch size given to chunked
MaxChunk == 4

\* the CSV row of the course of id n
course_of_id(n) == CsvRow(str_of_int(n), <<67>> \o str_of_int(n), <<99>>, <<>>, <<>>)

\* the ids of S in descending order: the order of the CSV rows
RECURSIVE descending(_)
descending(S) ==
    IF S = {} THEN <<>>
    ELSE LET m == CHOOSE x \in S : \A y \in S : y <= x
         IN  <<m>> \o descending(S \ {m})

InitChunked ==
    /\ student_id = <<55>>
    /\ cookie = <<99>>
    /\ batch_size \in -1..MaxChunk
    /\ retries = 0
    /\ csv_paths = <<>>
    /\ \E S \in (SUBSET (7..(6 + MaxIds))) \ {{}} :
          LET d == descending(S)
          IN  course_files = OneFile(f_courses, [i \in 1..Len(d) |-> course_of_id(d[i])])
    /\ remote = RowPool
    /\ pc = "begin"
    /\ rc = "running"
    /\ exc = "none"
    /\ courses = read_courses(course_rows)
    /\ rcids = sorted_rcids(course_keys(courses))
    /\ total_batches = 0
    /\ batches = <<>>
    /\ batch_index = 0
    /\ attempt = 0
    /\ ex = "none"
    /\ items = <<>>
    /\ idx = 0
    /\ slot_map = EmptyMap
    /\ segment_map = EmptyMap
    /\ out_json_file = NoFile
    /\ out_csv_file = NoFile
    /\ called = FALSE
    /\ failed_batches = {}
    /\ fetched = {}
    /\ sleeps = 0
    /\ warns = 0
    /\ errors = 0
    /\ m_pc = "idle"
    /\ m_courses = <<>>
    /\ m_slots_map = EmptyMap
    /\ m_segment_map = EmptyMap
    /\ m_exc = "none"
    /\ out_table = NoFile

NextChunked == BeginLoop

SpecChunked == InitChunked /\ [][NextChunked]_vars

(***************************************************************************)
(* What the claims speak of.                                               *)
(***************************************************************************)
\* the course id, the key, the day/time string and the segment name of a row
RowRcid(it) == field(it, "runningCourseId")
RowKey(it) == <<field(it, "runningCourseId"), field(it, "courseSlotId"), field(it, "courseSlotCd")>>
RowDayTime(it) == field(it, "slotPeriodCdDays")
RowSeg(it) == field(it, "segName")

\* a row object with a course id and a day/time string
RowValid(it) == it.isdict /\ RowRcid(it) # <<>> /\ RowDayTime(it) # <<>>

\* a row object that lacks its course id or its day/time string
RowLacking(it) == it.isdict /\ (RowRcid(it) = <<>> \/ RowDayTime(it) = <<>>)

\* the (key, day/time) pairs of the aggregation
Pairs(sm) == UNION {{<<k, d>> : d \in sm[k]} : k \in DOMAIN sm}

\* the (key, day/time) pairs of the valid rows of S
ValidPairs(S) == {<<RowKey(it), RowDayTime(it)>> : it \in {x \in S : RowValid(x)}}

\* the valid rows of S that name a segment
SegRows(S) == {x \in S : RowValid(x) /\ RowSeg(x) # <<>>}

\* the configuration check has passed
ConfigPassed ==
    student_id # <<>> /\ cookie # <<>> /\ rcids # <<>> /\ batch_size > 0

\* the least k with k * b >= n
CeilDiv(n, b) == CHOOSE k \in 0..n : k * b >= n /\ \A j \in 0..n : j * b >= n => k <= j

\* the concatenation of a list of lists
RECURSIVE Concat(_)
Concat(ss) == IF ss = <<>> THEN <<>> ELSE Head(ss) \o Concat(Tail(ss))

(***************************************************************************)
(* C1 (as stated): for a retry count r >= 0, at most r + 1 remote calls    *)
(* are issued for a batch.  attempt counts the calls of the current batch: *)
(* it is incremented right before each call of post_timetable.             *)
(* The code issues r + 2.                                                  *)
(***************************************************************************)
C1_AtMostRetriesPlusOneCalls ==
    retries >= 0 => attempt <= retries + 1

(***************************************************************************)
(* C2: partial-failure tolerance.  An attempt that fails, whatever it      *)
(* raises, leaves the aggregation alone, and when the failure is one the   *)
(* batch loop counts against the retry budget the run goes on: with        *)
(* another attempt, or, the budget exhausted, with the inter-batch sleep;  *)
(* after a batch, abandoned or fetched, the loop goes to the next batch    *)
(* (to the output after the last); and between attempts and at the output  *)
(* the aggregation holds exactly the valid rows of the responses whose     *)
(* attempt succeeded, each segment name being one such a row gave.  (An    *)
(* attempt that raises an error the except clause does not name, of the    *)
(* transport or of parsing a body nested too deep, ends the run there:     *)
(* that is C4's case, not a batch that exhausts its retries.)              *)
(***************************************************************************)
\* what an attempt raises that the except clause of line 243 does not name: the
\* transport errors that are no HTTPError, URLError or TimeoutError, and the
\* RecursionError of json.loads
UncaughtFetchErrors ==
    {"ConnectionResetError", "BadStatusLine", "LineTooLong", "IncompleteRead",
     "UnknownProtocol", "HTTPException", "SSLError", "OSError", "RecursionError"}

C2_AggregationIsFetched ==
    pc \in {"attempt", "sleep", "json", "csv"} =>
        /\ Pairs(slot_map) = ValidPairs(fetched)
        /\ DOMAIN segment_map = {RowKey(it) : it \in SegRows(fetched)}
        /\ \A k \in DOMAIN segment_map :
              \E it \in SegRows(fetched) : RowKey(it) = k /\ RowSeg(it) = segment_map[k]

C2_AttemptStep ==
    /\ pc = "attempt" =>
          /\ \/ pc' \in {"attempt", "rows", "sleep"} /\ rc' = "running"
             \/ ex' \in UncaughtFetchErrors
          /\ ex' \in UncaughtFetchErrors => (pc' = "exit" /\ exc' = ex')
          /\ fetched' = fetched
          /\ UNCHANGED agg_vars
    /\ (pc = "attempt" /\ pc' = "sleep") =>
          /\ failed_batches' = failed_batches \cup {batch_index}
          /\ rc' = "running"
    /\ pc = "sleep" =>
          /\ rc' = "running"
          /\ IF batch_index < Len(batches)
             THEN pc' = "attempt" /\ batch_index' = batch_index + 1
             ELSE pc' = "json"
          /\ UNCHANGED agg_vars

C2_PartialFailureTolerance ==
    [](C2_AggregationIsFetched) /\ [][C2_AttemptStep]_vars

\* a batch was abandoned, another gave rows, and slots.json has been written from them
C2_Witness ==
    /\ pc = "csv"
    /\ failed_batches # {}
    /\ slot_map # EmptyMap
    /\ out_json_file.exists

(***************************************************************************)
(* C3 (as stated): once the configuration check has passed, main raises    *)
(* nothing and ends with return 0, both files written.  The claim is taken *)
(* over the responses that are lists of row objects (a response holding an *)
(* element that is no object is C4's case) and over the attempts that      *)
(* raise nothing the except clause lets through (C4's case too), so        *)
(* AttributeError and the uncaught errors of an attempt are set aside.     *)
(***************************************************************************)
C3_NoFatalErrorAfterConfig ==
    (ConfigPassed /\ exc \notin {"AttributeError"} \cup UncaughtFetchErrors) =>
        /\ rc # "raised"
        /\ pc = "exit" => rc = "0" /\ out_json_file.exists /\ out_csv_file.exists

(***************************************************************************)
(* C4 (as stated): a transport failure, a body that is not valid JSON, and *)
(* a response of an unexpected shape, a list holding an element that is no *)
(* object included, never end the run.                                     *)
(***************************************************************************)
C4_BadShapeIsRecoverable ==
    /\ (\E i \in 1..Len(items) : ~items[i].isdict) => rc # "raised"
    /\ ex \in TransportErrors => rc # "raised"
    /\ ex \in {"JSONDecodeError", "RecursionError"} => rc # "raised"

(***************************************************************************)
(* C5: batching completeness.  chunked yields ceil(N/B) batches, as many   *)
(* as total_batches says, each of 1..B ids, and their concatenation is the *)
(* id list; of the empty list it yields nothing.                           *)
(***************************************************************************)
C5_BatchingComplete ==
    /\ pc = "attempt" =>
          /\ Len(batches) = CeilDiv(Len(rcids), batch_size)
          /\ Len(batches) = total_batches
          /\ \A i \in 1..Len(batches) : Len(batches[i]) \in 1..batch_size
          /\ Concat(batches) = rcids
    /\ \A b \in 1..MaxChunk : chunked(<<>>, b) = <<>>

\* a list that the batch size does not divide: the last batch is shorter
C5_Witness ==
    /\ pc = "attempt"
    /\ Len(batches) >= 2
    /\ Len(batches[Len(batches)]) < batch_size
    /\ Len(rcids) = MaxIds

(***************************************************************************)
(* C6: with the student id or the cookie missing, or a batch size <= 0,    *)
(* main never gets to the batch loop, issues no remote call, and when it   *)
(* ends it ends with return 2 or an exception.                             *)
(***************************************************************************)
C6_ConfigErrorFailsFast ==
    (student_id = <<>> \/ cookie = <<>> \/ batch_size <= 0) =>
        /\ ~called
        /\ pc \in {"creds", "load", "begin", "exit"}
        /\ pc = "exit" => rc \in {"2", "raised"}

\* credentials and course ids present, a negative batch size: chunked has raised
C6_Witness ==
    /\ pc = "exit"
    /\ batch_size < 0
    /\ rc = "raised"
    /\ exc = "ValueError"
    /\ ~called

(***************************************************************************)
(* C7: first-wins segment name.  A step never changes or removes a         *)
(* recorded segment name, and a row that is kept and names a segment for a *)
(* key that has none records that name.                                    *)
(***************************************************************************)
C7_Step ==
    /\ \A k \in DOMAIN segment_map :
          k \in DOMAIN segment_map' /\ segment_map'[k] = segment_map[k]
    /\ (pc = "rows" /\ idx <= Len(items) /\ pc' = "rows") =>
          LET it == items[idx]
          IN  (RowValid(it) /\ RowSeg(it) # <<>> /\ RowKey(it) \notin DOMAIN segment_map)
                 => (RowKey(it) \in DOMAIN segment_map' /\ segment_map'[RowKey(it)] = RowSeg(it))

C7_FirstSegmentWins == [][C7_Step]_vars

\* a later row of the same key, with another segment name, has been processed
C7_Witness ==
    /\ pc = "rows"
    /\ \E i \in 1..Len(items) :
          /\ i < idx
          /\ RowValid(items[i]) /\ RowSeg(items[i]) # <<>>
          /\ RowKey(items[i]) \in DOMAIN segment_map
          /\ segment_map[RowKey(items[i])] # RowSeg(items[i])

(***************************************************************************)
(* C8: aggregator idempotence.  Processing a row equal to the row just     *)
(* processed leaves slot_map and segment_map as they are, and the day/time *)
(* strings of a slot key are kept without duplicates.                      *)
(***************************************************************************)
C8_Step ==
    (pc = "rows" /\ 1 < idx /\ idx <= Len(items) /\ items[idx] = items[idx - 1] /\ pc' = "rows")
        => UNCHANGED agg_vars

\* the day/time strings written for a slot are pairwise distinct
C8_NoDuplicateDayTime ==
    out_json_file.exists =>
        \A r \in DOMAIN out_json_file.data :
            \A i \in 1..Len(out_json_file.data[r].slots) :
                LET days == out_json_file.data[r].slots[i].slotPeriodCdDays
                IN  \A a, b \in 1..Len(days) : days[a] = days[b] => a = b

C8_Idempotent == [](C8_NoDuplicateDayTime) /\ [][C8_Step]_vars

\* a valid row has been processed twice in a row
C8_Witness ==
    /\ pc = "rows"
    /\ idx = 3
    /\ items[1] = items[2]
    /\ RowValid(items[1])
    /\ RowDayTime(items[1]) \in slot_map[RowKey(items[1])]

(***************************************************************************)
(* C9: a row object whose course id or day/time string is empty after      *)
(* trimming changes neither map, raises nothing, does not count as an      *)
(* attempt, and the row loop goes on with the next row.                    *)
(***************************************************************************)
C9_Step ==
    (pc = "rows" /\ idx <= Len(items) /\ RowLacking(items[idx])) =>
        /\ UNCHANGED agg_vars
        /\ pc' = "rows" /\ rc' = "running"
        /\ idx' = idx + 1
        /\ UNCHANGED <<attempt, ex, items, failed_batches, batch_index>>

C9_LackingRowDiscarded == [][C9_Step]_vars

\* a row was discarded and the row after it was aggregated
C9_Witness ==
    /\ pc = "rows"
    /\ idx = 3
    /\ RowLacking(items[1])
    /\ RowValid(items[2])
    /\ <<RowKey(items[2]), RowDayTime(items[2])>> \in Pairs(slot_map)

(***************************************************************************)
(* C10: segment precedence in the merge.  Once the merge loop has run,     *)
(* every course of the metadata carries an authoritative segment name (a   *)
(* non-empty segName of one of its slots in slots.json, or of one of its   *)
(* rows in slots.csv when that file is read) when there is one, and        *)
(* otherwise the segment computed from the dates of its first metadata     *)
(* row, which is empty when a date is missing or unreadable; a course      *)
(* with no slot in either file gets the computed segment and an empty      *)
(* slot field.                                                             *)
(***************************************************************************)
\* the non-empty segment names slots.json holds for a course
JsonSegs(rcid) ==
    IF out_json_file.exists /\ rcid \in DOMAIN out_json_file.data
    THEN {strip(out_json_file.data[rcid].slots[i].segName) :
             i \in 1..Len(out_json_file.data[rcid].slots)} \ {<<>>}
    ELSE {}

\* slots.json gives no slot code at all, so slots.csv is read when it exists
JsonHasNoSlotCode ==
    out_json_file.exists =>
        \A r \in DOMAIN out_json_file.data :
            \A i \in 1..Len(out_json_file.data[r].slots) :
                strip(out_json_file.data[r].slots[i].courseSlotCd) = <<>>

CsvRead == JsonHasNoSlotCode /\ out_csv_file.exists

\* the trimmed cell of row i of slots.csv under the key the script picks for a name
CsvCell(i, name, fold) ==
    LET header == out_csv_file.header
        row    == out_csv_file.rows[i]
    IN  strip(csv_get(header, row, first_key(dict_keys(header, row), name, fold, name, 1).key))

\* the rows of slots.csv of a course: those whose course id cell, trimmed, is the id
CsvRowsOf(rcid) ==
    IF CsvRead
    THEN {i \in 1..Len(out_csv_file.rows) :
             out_csv_file.rows[i] # <<>> /\ CsvCell(i, n_rcid, TRUE) = rcid}
    ELSE {}

CsvSegs(rcid) == {CsvCell(i, n_segName, FALSE) : i \in CsvRowsOf(rcid)} \ {<<>>}

AuthoritativeSegs(rcid) == JsonSegs(rcid) \cup CsvSegs(rcid)

HasAggregatedSlots(rcid) ==
    \/ out_json_file.exists /\ rcid \in DOMAIN out_json_file.data
    \/ CsvRowsOf(rcid) # {}

\* the segment computed from the dates of the first metadata row of a course
HeuristicSeg(rcid) ==
    LET first == CHOOSE i \in 1..Len(m_course_rows) :
                    /\ strip(m_course_rows[i].rcid) = rcid
                    /\ \A j \in 1..(i - 1) : strip(m_course_rows[j].rcid) # rcid
    IN  determine_segment(parse_date(strip(m_course_rows[first].strtdt)),
                          parse_date(strip(m_course_rows[first].enddt)))

C10_SegmentPrecedence ==
    (m_pc \in {"write", "exit"} /\ m_exc = "none") =>
        \A i \in 1..Len(m_courses) :
            LET c == m_courses[i] IN
            /\ IF AuthoritativeSegs(c.rcid) # {}
               THEN c.segment \in AuthoritativeSegs(c.rcid)
               ELSE c.segment = HeuristicSeg(c.rcid)
            /\ ~HasAggregatedSlots(c.rcid) =>
                  c.segment = HeuristicSeg(c.rcid) /\ c.slots = <<>>

\* the table is written; one course took an authoritative name over a computed
\* segment, another, with no slot, kept its computed segment and an empty slot field
C10_Witness ==
    /\ m_pc = "exit"
    /\ out_table.exists
    /\ \E i \in 1..Len(m_courses) :
          /\ AuthoritativeSegs(m_courses[i].rcid) # {}
          /\ HeuristicSeg(m_courses[i].rcid) # <<>>
          /\ m_courses[i].segment # HeuristicSeg(m_courses[i].rcid)
    /\ \E i \in 1..Len(m_courses) :
          /\ ~HasAggregatedSlots(m_courses[i].rcid)
          /\ m_courses[i].segment # <<>>
          /\ m_courses[i].slots = <<>>

(***************************************************************************)
(* C11: the end-to-end scenario.  With the courses 101/CS101, 102/CS102    *)
(* (no dates) and 103/CS103 (dates that classify to "1-2"), batch size 2,  *)
(* and fetched rows for 101 (slot S1, segName "2") and 102 (slot S2,       *)
(* segName "") and none for 103, the table the merge writes after          *)
(* get_slots has ended holds exactly CS101 (segment "2", slot S1), CS102   *)
(* (segment "", slot S2), CS103 (segment "1-2", slot ""), in this order.   *)
(* The scenario: the three courses are the metadata both programs read     *)
(* (their rows are in courses.csv, courses2.csv or courses3.csv and no     *)
(* --csv option names another file), and both batches of the fetch loop    *)
(* came to their end (sleeps counts the batches that did).                 *)
(***************************************************************************)
C11_Scenario ==
    /\ batch_size = 2
    /\ Len(course_rows) = 3
    /\ {course_rows[i] : i \in 1..3} = {c_101, c_102, c_103}
    /\ m_course_rows = course_rows
    /\ fetched = {r_101, r_102}
    /\ sleeps = Len(batches)

C11_Expected ==
    << [ccode |-> <<67, 83, 49, 48, 49>>, cname |-> <<97>>, coordname |-> <<80>>,
        ccrd |-> <<51>>, segment |-> <<50>>, slots |-> <<83, 49>>],
       [ccode |-> <<67, 83, 49, 48, 50>>, cname |-> <<98>>, coordname |-> <<80>>,
        ccrd |-> <<51>>, segment |-> <<>>, slots |-> <<83, 50>>],
       [ccode |-> <<67, 83, 49, 48, 51>>, cname |-> <<99>>, coordname |-> <<80>>,
        ccrd |-> <<51>>, segment |-> <<49, 45, 50>>, slots |-> <<>>] >>

C11_EndToEnd ==
    (m_pc = "exit" /\ C11_Scenario) => (out_table.exists /\ out_table.rows = C11_Expected)

\* the scenario was run to the end, in two batches, the rows of 101 and 102 in the first
C11_Witness ==
    /\ m_pc = "exit"
    /\ C11_Scenario
    /\ Len(batches) = 2
    /\ failed_batches = {}
    /\ out_table.exists /\ Len(out_table.rows) = 3

(***************************************************************************)
(* C12: the merged table holds exactly one record for each distinct course *)
(* id of the metadata and is in ascending order of course code, the codes  *)
(* compared as plain strings, code point by code point ("A10" before       *)
(* "A9"): of two adjacent records the first one's code is <= the second's. *)
(* The metadata of the table is what the merge reads: the rows of          *)
(* courses.csv, courses2.csv and courses3.csv; the table is written when   *)
(* reading slots.csv raised nothing.                                       *)
(***************************************************************************)
\* a <= b, lexicographically on code points
LexLe(a, b) ==
    \/ Len(a) <= Len(b) /\ SubSeq(b, 1, Len(a)) = a
    \/ \E i \in 1..Len(a) :
          /\ i <= Len(b)
          /\ SubSeq(a, 1, i - 1) = SubSeq(b, 1, i - 1)
          /\ a[i] < b[i]

\* the distinct course ids of a list of metadata rows
MetaIdsOf(rows) == {strip(rows[i].rcid) : i \in 1..Len(rows)} \ {<<>>}

\* the first row of a course id in a list of metadata rows
FirstRowIn(rows, rcid) ==
    rows[CHOOSE i \in 1..Len(rows) :
            /\ strip(rows[i].rcid) = rcid
            /\ \A j \in 1..(i - 1) : strip(rows[j].rcid) # rcid]

\* the course ids of the metadata get_slots reads, and of the metadata the merge reads
MetaIds == MetaIdsOf(course_rows)
M_MetaIds == MetaIdsOf(m_course_rows)

C12_OneRecordPerCourseSorted ==
    (m_pc = "exit" /\ m_exc = "none") =>
        /\ out_table.exists
        /\ Len(out_table.rows) = Cardinality(M_MetaIds)
        /\ \E f \in [M_MetaIds -> 1..Len(out_table.rows)] :
              /\ \A a, b \in M_MetaIds : f[a] = f[b] => a = b
              /\ \A a \in M_MetaIds :
                    /\ out_table.rows[f[a]].ccode = strip(FirstRowIn(m_course_rows, a).ccode)
                    /\ out_table.rows[f[a]].cname = strip(FirstRowIn(m_course_rows, a).cname)
        /\ \A i \in 1..(Len(out_table.rows) - 1) :
              LexLe(out_table.rows[i].ccode, out_table.rows[i + 1].ccode)

\* three courses were written, "A10" twice and then "A9"
C12_Witness ==
    /\ m_pc = "exit"
    /\ out_table.exists
    /\ Len(out_table.rows) = 3
    /\ out_table.rows[1].ccode = <<65, 49, 48>>
    /\ out_table.rows[2].ccode = <<65, 49, 48>>
    /\ out_table.rows[3].ccode = <<65, 57>>
    /\ out_table.rows[1].cname # out_table.rows[2].cname

(***************************************************************************)
(* C13: the read-out of the aggregation.  slots.json is a mapping keyed by *)
(* course id in which every key of slot_map appears exactly once, under    *)
(* its course id; the slots of a course are in ascending order of          *)
(* (slot id, slot code); each slot carries its segment name, empty when    *)
(* none was recorded, and its distinct day/time strings in ascending       *)
(* order, in whatever order the rows arrived.                              *)
(***************************************************************************)
\* str a < str b
LexLt(a, b) == a # b /\ LexLe(a, b)

C13_SlotsOf(rcid) == {k \in DOMAIN slot_map : k[1] = rcid}

C13_ReadOut ==
    out_json_file.exists =>
        LET data == out_json_file.data IN
        /\ DOMAIN data = {k[1] : k \in DOMAIN slot_map}
        /\ \A rcid \in DOMAIN data :
              LET slots == data[rcid].slots IN
              /\ data[rcid].rcid = rcid
              /\ Len(slots) = Cardinality(C13_SlotsOf(rcid))
              /\ \A k \in C13_SlotsOf(rcid) :
                    \E i \in 1..Len(slots) :
                        /\ slots[i].courseSlotId = k[2]
                        /\ slots[i].courseSlotCd = k[3]
                        /\ slots[i].segName =
                              (IF k \in DOMAIN segment_map THEN segment_map[k] ELSE <<>>)
                        /\ {slots[i].slotPeriodCdDays[j] :
                               j \in 1..Len(slots[i].slotPeriodCdDays)} = slot_map[k]
                        /\ \A j \in 1..(Len(slots[i].slotPeriodCdDays) - 1) :
                              LexLt(slots[i].slotPeriodCdDays[j],
                                    slots[i].slotPeriodCdDays[j + 1])
              /\ \A i \in 1..(Len(slots) - 1) :
                    \/ LexLt(slots[i].courseSlotId, slots[i + 1].courseSlotId)
                    \/ /\ slots[i].courseSlotId = slots[i + 1].courseSlotId
                       /\ LexLe(slots[i].courseSlotCd, slots[i + 1].courseSlotCd)

\* slots.json is written; course 101 has slot 1/"S1", with its two days in order and
\* the first segment name, before slot 10/"S0", which arrived first and has no segment
C13_Witness ==
    /\ out_json_file.exists
    /\ <<49, 48, 49>> \in DOMAIN out_json_file.data
    /\ Len(items) = 2 /\ items[1] = r_101_s0
    /\ LET slots == out_json_file.data[<<49, 48, 49>>].slots IN
       /\ Len(slots) = 2
       /\ slots[1].courseSlotCd = <<83, 49>>
       /\ slots[1].slotPeriodCdDays = << <<70, 114, 105>>, <<77, 111, 110, 45, 84, 117, 101>> >>
       /\ slots[1].segName = <<50>>
       /\ slots[2].courseSlotCd = <<83, 48>>
       /\ slots[2].segName = <<>>

(***************************************************************************)
(* C14: determine_segment.  It gives "" when either date is absent or      *)
(* unreadable; otherwise "s-e", where s is the number (1..4) of the first  *)
(* start boundary (Jan 05, Feb 10, Feb 26, Mar 23) the start date is on or *)
(* before, 5 past them all, and e is the label (2, 3, 4, 6) of the first   *)
(* end boundary (Feb 09, Mar 09, Mar 20, Apr 27) the end date is on or     *)
(* before, 6 past them all.  A start date equal to the first boundary is   *)
(* in segment 1.                                                           *)
(***************************************************************************)
\* the minutes of a datetime, on a scale that keeps the order
C14_Minutes(dt) == (((dt[1] * 12 + (dt[2] - 1)) * 31 + (dt[3] - 1)) * 24 + dt[4]) * 60 + dt[5]

C14_OnOrBefore(a, b) == C14_Minutes(a) <= C14_Minutes(b)

C14_StartBoundaries == <<jan_05, feb_10, feb_26, mar_23>>
C14_EndBoundaries == <<feb_09, mar_09, mar_20, apr_27>>
C14_EndLabels == <<2, 3, 4, 6>>

\* the first boundary dt is on or before, 5 when there is none
C14_First(dt, boundaries) ==
    IF \E i \in 1..4 : C14_OnOrBefore(dt, boundaries[i])
    THEN CHOOSE i \in 1..4 :
            /\ C14_OnOrBefore(dt, boundaries[i])
            /\ \A j \in 1..(i - 1) : ~C14_OnOrBefore(dt, boundaries[j])
    ELSE 5

C14_Expected(start_dt, end_dt) ==
    IF start_dt = None \/ end_dt = None THEN <<>>
    ELSE LET s == C14_First(start_dt, C14_StartBoundaries)
             e == IF C14_First(end_dt, C14_EndBoundaries) = 5 THEN 6
                  ELSE C14_EndLabels[C14_First(end_dt, C14_EndBoundaries)]
         IN  <<48 + s, 45, 48 + e>>

C14_DetermineSegment ==
    m_pc = "slots_json" =>
        /\ Len(m_courses) = 1
        /\ LET start_dt == parse_date(course_rows[1].strtdt)
               end_dt   == parse_date(course_rows[1].enddt)
           IN  /\ m_courses[1].segment = C14_Expected(start_dt, end_dt)
               /\ (start_dt = jan_05 /\ end_dt # None) => m_courses[1].segment[1] = 49

\* a course starting exactly on Jan 05 00:00 and ending after Apr 27 was read: "1-6"
C14_Witness ==
    /\ m_pc = "slots_json"
    /\ parse_date(course_rows[1].strtdt) = jan_05
    /\ parse_date(course_rows[1].enddt) = <<2027, 4, 28, 0, 0>>
    /\ m_courses[1].segment = <<49, 45, 54>>

(***************************************************************************)
(* C15: the inter-batch sleep.  Every batch, fetched or given up, is       *)
(* followed by one sleep (line 251) before the next batch is called:       *)
(* while batch i is being attempted exactly i - 1 sleeps have been done.   *)
(* Batches are called one after another: the batch being called changes    *)
(* only from i to i + 1, and only by the step that sleeps.                 *)
(***************************************************************************)
C15_SleepsDone ==
    /\ pc \in {"attempt", "rows", "sleep"} => sleeps = batch_index - 1
    /\ (pc \in {"json", "csv"} \/ out_json_file.exists) => sleeps = Len(batches)

C15_Step ==
    /\ (pc = "attempt" /\ attempt' = attempt + 1) => batch_index' = batch_index
    /\ batch_index' # batch_index =>
          /\ batch_index' = batch_index + 1
          /\ pc = "begin" \/ (pc = "sleep" /\ sleeps' = sleeps + 1)
    /\ sleeps' # sleeps => pc = "sleep" /\ sleeps' = sleeps + 1

C15_SleepBetweenBatches == [](C15_SleepsDone) /\ [][C15_Step]_vars

\* the first batch was given up, the second is being called after one sleep
C15_Witness ==
    /\ pc = "attempt"
    /\ batch_index = 2
    /\ attempt = 1
    /\ failed_batches = {1}
    /\ sleeps = 1

(***************************************************************************)
(* C16: course ids and the metadata.  Every record the merge holds and     *)
(* writes is of a course id of the metadata the merge reads.  A fetched row *)
(* whose course id is in no CSV file get_slots reads is aggregated like any *)
(* other and is written to slots.json under its id with an empty code and  *)
(* name; aggregating it and writing it raise nothing, and the merged table *)
(* has no record for an id that is in no CSV file the merge reads.         *)
(***************************************************************************)
\* the fetched rows that are kept and whose course id is not in the metadata
C16_UnknownRows == {it \in fetched : RowValid(it) /\ RowRcid(it) \notin MetaIds}

C16_State ==
    /\ \A i \in 1..Len(m_courses) : m_courses[i].rcid \in M_MetaIds
    /\ \A it \in C16_UnknownRows :
          /\ RowKey(it) \in DOMAIN slot_map
          /\ RowDayTime(it) \in slot_map[RowKey(it)]
    /\ out_json_file.exists =>
          /\ \A it \in C16_UnknownRows : RowRcid(it) \in DOMAIN out_json_file.data
          /\ \A rcid \in DOMAIN out_json_file.data :
                rcid \notin MetaIds =>
                    /\ out_json_file.data[rcid].ccode = <<>>
                    /\ out_json_file.data[rcid].cname = <<>>
                    /\ out_json_file.data[rcid].slots # <<>>
    /\ m_pc = "exit" =>
          /\ m_exc = "none"
          /\ Len(out_table.rows) = Cardinality(M_MetaIds)
          /\ \A i \in 1..Len(out_table.rows) :
                \E j \in 1..Len(m_course_rows) :
                    /\ out_table.rows[i].ccode = strip(m_course_rows[j].ccode)
                    /\ out_table.rows[i].cname = strip(m_course_rows[j].cname)

C16_Step ==
    /\ (/\ pc = "rows" /\ idx <= Len(items) /\ items[idx].isdict
        /\ RowRcid(items[idx]) \notin MetaIds)
          => (pc' = "rows" /\ rc' = "running")
    /\ pc = "json" => (pc' = "csv" /\ rc' = "running" /\ out_json_file'.exists)
    /\ (m_pc \notin {"idle", "exit"} /\ m_pc' # m_pc) =>
          m_pc' \in {"slots_json", "slots_csv", "merge", "write", "exit"}

C16_UnknownIdsKeptNotMerged == [](C16_State) /\ [][C16_Step]_vars

\* the row of course 999 was fetched and written to slots.json; the table has the
\* three courses of the metadata
C16_Witness ==
    /\ m_pc = "exit"
    /\ r_999 \in fetched
    /\ out_json_file.exists
    /\ <<57, 57, 57>> \in DOMAIN out_json_file.data
    /\ Len(out_table.rows) = 3

(***************************************************************************)
(* C17: course metadata is first-occurrence-wins, in get_slots and in the  *)
(* merge.  Reading one more row whose course id is already recorded, or    *)
(* empty, leaves the mapping as it was; the mapping finally holds one      *)
(* entry for each course id, with the fields of the id's first row.        *)
(***************************************************************************)
\* the course ids a mapping records
C17_Ids(courses_) == {courses_[i].rcid : i \in 1..Len(courses_)}

\* the first k rows of the course CSV files get_slots reads, and of those the merge reads
C17_Rows(k) == SubSeq(course_rows, 1, k)
C17_MergeRows(k) == SubSeq(m_course_rows, 1, k)

C17_LaterRowIgnored ==
    /\ \A k \in 0..(Len(course_rows) - 1) :
          LET rcid == strip(course_rows[k + 1].rcid) IN
          (rcid = <<>> \/ rcid \in C17_Ids(read_courses(C17_Rows(k))))
              => read_courses(C17_Rows(k + 1)) = read_courses(C17_Rows(k))
    /\ \A k \in 0..(Len(m_course_rows) - 1) :
          LET rcid == strip(m_course_rows[k + 1].rcid) IN
          (rcid = <<>> \/ rcid \in C17_Ids(merge_read_courses(C17_MergeRows(k), <<>>)))
              => merge_read_courses(C17_MergeRows(k + 1), <<>>)
                    = merge_read_courses(C17_MergeRows(k), <<>>)

C17_FirstOccurrenceWins ==
    /\ pc = "begin" => C17_LaterRowIgnored
    /\ pc \in {"begin", "attempt", "rows", "sleep", "json", "csv"} =>
          /\ C17_Ids(courses) = MetaIds
          /\ Len(courses) = Cardinality(MetaIds)
          /\ \A i \in 1..Len(courses) :
                /\ courses[i].ccode = strip(FirstRowIn(course_rows, courses[i].rcid).ccode)
                /\ courses[i].cname = strip(FirstRowIn(course_rows, courses[i].rcid).cname)
    /\ m_pc \in {"slots_json", "slots_csv", "merge"} =>
          /\ C17_Ids(m_courses) = M_MetaIds
          /\ Len(m_courses) = Cardinality(M_MetaIds)
          /\ \A i \in 1..Len(m_courses) :
                LET first == FirstRowIn(m_course_rows, m_courses[i].rcid) IN
                /\ m_courses[i].ccode = strip(first.ccode)
                /\ m_courses[i].cname = strip(first.cname)
                /\ m_courses[i].coordname = strip(first.coordname)
                /\ m_courses[i].ccrd = strip(first.ccrd)
                /\ m_courses[i].segment = HeuristicSeg(m_courses[i].rcid)

\* "101 " with code CS000 came before "101" with code CS101: both loaders hold CS000
C17_Witness ==
    /\ m_pc = "merge"
    /\ course_rows[1] = c_101_again
    /\ \E i \in 1..Len(courses) :
          courses[i].rcid = <<49, 48, 49>> /\ courses[i].ccode = <<67, 83, 48, 48, 48>>
    /\ \E i \in 1..Len(m_courses) :
          m_courses[i].rcid = <<49, 48, 49>> /\ m_courses[i].ccode = <<67, 83, 48, 48, 48>>
    /\ Len(m_courses) = 3

(***************************************************************************)
(* C18: warnings and the final error.  As stated: when a batch is over,    *)
(* one WARN line was printed for each of its failed attempts, and one      *)
(* ERROR line if and only if the batch was given up.                       *)
(***************************************************************************)
\* the attempts of the batch in progress that have failed: all of them, but for
\* the one whose response is being processed or was processed
C18_FailedAttempts == IF pc = "attempt" \/ ex # "none" THEN attempt ELSE attempt - 1

C18_GivenUp == batch_index \in failed_batches

C18_WarningPerFailedAttempt ==
    pc = "sleep" =>
        /\ warns = C18_FailedAttempts
        /\ errors = (IF C18_GivenUp THEN 1 ELSE 0)

(***************************************************************************)
(* C18 as amended: a failed attempt prints either the WARN line or the     *)
(* ERROR line, never both.  Each failed attempt that is followed by        *)
(* another attempt prints one WARN line; the failed attempt after which    *)
(* the batch is given up prints no WARN line but the ERROR line, once; a   *)
(* batch that is fetched prints no ERROR line.                             *)
(***************************************************************************)
C18_Lines ==
    /\ errors \in {0, 1}
    /\ pc \in {"attempt", "rows"} => (errors = 0 /\ warns = C18_FailedAttempts)
    /\ pc = "sleep" =>
          /\ errors = (IF C18_GivenUp THEN 1 ELSE 0)
          /\ C18_GivenUp <=> ex # "none"
          /\ warns = (IF C18_GivenUp THEN C18_FailedAttempts - 1 ELSE C18_FailedAttempts)

C18_Step ==
    /\ (pc = "attempt" /\ pc' = "attempt") => (warns' = warns + 1 /\ errors' = errors)
    /\ (pc = "attempt" /\ pc' = "sleep") => (warns' = warns /\ errors' = errors + 1)
    /\ (pc = "attempt" /\ pc' = "rows") => (warns' = warns /\ errors' = errors)
    /\ pc = "rows" => (warns' = warns /\ errors' = errors)

C18_WarningOrError == [](C18_Lines) /\ [][C18_Step]_vars

\* a batch was given up after two failed attempts: one WARN line, one ERROR line
C18_Witness ==
    /\ pc = "sleep"
    /\ retries = 0
    /\ attempt = 2
    /\ ex # "none"
    /\ warns = 1
    /\ errors = 1

(***************************************************************************)
(* C19: the shape of the aggregation.  In every state of get_slots every   *)
(* key of segment_map is a key of slot_map, every key of slot_map has a    *)
(* non-empty course id and a non-empty set of non-empty day/time strings,  *)
(* every recorded segment name is non-empty, and no step removes a         *)
(* (key, day/time) pair.                                                   *)
(***************************************************************************)
C19_Shape ==
    /\ DOMAIN segment_map \subseteq DOMAIN slot_map
    /\ \A k \in DOMAIN slot_map :
          /\ k[1] # <<>>
          /\ slot_map[k] # {}
          /\ <<>> \notin slot_map[k]
    /\ \A k \in DOMAIN segment_map : segment_map[k] # <<>>

C19_Grows == Pairs(slot_map) \subseteq Pairs(slot_map')

C19_AggregationInvariant == [](C19_Shape) /\ [][C19_Grows]_vars

\* two keys are aggregated, one with two day/times and a segment name, one whose
\* segment name was blank and is not recorded; rows without an id or a day/time came by
C19_Witness ==
    /\ pc = "rows"
    /\ Cardinality(DOMAIN slot_map) = 2
    /\ Cardinality(DOMAIN segment_map) = 1
    /\ \E k \in DOMAIN segment_map : Cardinality(slot_map[k]) = 2
    /\ \E it \in fetched : RowLacking(it)

(***************************************************************************)
(* C20: termination of the fetch loop.  For every id list, positive batch  *)
(* size, retry count and sequence of attempt outcomes, a batch is called   *)
(* a bounded number of times, and when main has ended after the loop was   *)
(* entered every batch was attempted and the output stage was reached.     *)
(***************************************************************************)
\* the most calls the except clause allows for a batch
C20_MostAttempts == IF retries >= 0 THEN retries + 2 ELSE 1

C20_LoopReachesOutput ==
    /\ pc \in {"attempt", "rows", "sleep"} => attempt <= C20_MostAttempts
    /\ pc \in {"rows", "sleep"} => attempt >= 1
    /\ (pc = "exit" /\ batches # <<>>) =>
          /\ batch_index = Len(batches)
          /\ out_json_file.exists

\* what does hold: main always ends, whatever the outcomes (checked under SpecFair)
C20_MainEnds == <>(pc = "exit")

(***************************************************************************)
(* C21: course-level selection in the merge.  The slots of a course in     *)
(* slots.json are in ascending order of (slot id, slot code).  Once the    *)
(* merge loop has run, the slot field of a course is the slot code of the  *)
(* last of its slots, in that order, whose trimmed code is not empty, and  *)
(* its segment is the segment name of the last of its slots whose trimmed  *)
(* name is not empty: the two are chosen independently of each other, and  *)
(* a later slot's name replaces an earlier one's.  Rows of slots.csv, read *)
(* only when slots.json gave no slot code at all, come after the slots of  *)
(* slots.json; with no code the field is empty, with no name the segment   *)
(* is the one computed from the dates.                                     *)
(***************************************************************************)
\* the slots slots.json holds for a course, in the order they were written
C21_JsonSlots(rcid) ==
    IF out_json_file.exists /\ rcid \in DOMAIN out_json_file.data
    THEN out_json_file.data[rcid].slots
    ELSE <<>>

\* the position of the last non-empty string of a list, 0 when there is none
C21_LastIndex(ss) ==
    IF \E i \in 1..Len(ss) : ss[i] # <<>>
    THEN CHOOSE i \in 1..Len(ss) : ss[i] # <<>> /\ \A j \in (i + 1)..Len(ss) : ss[j] = <<>>
    ELSE 0

C21_CodeIndex(rcid) ==
    C21_LastIndex([i \in 1..Len(C21_JsonSlots(rcid)) |-> strip(C21_JsonSlots(rcid)[i].courseSlotCd)])
C21_SegIndex(rcid) ==
    C21_LastIndex([i \in 1..Len(C21_JsonSlots(rcid)) |-> strip(C21_JsonSlots(rcid)[i].segName)])

\* the value of the last row of slots.csv of a course that has one in the named column
C21_CsvLast(rcid, name) ==
    LET hits == {i \in CsvRowsOf(rcid) : CsvCell(i, name, FALSE) # <<>>}
    IN  IF hits = {} THEN <<>>
        ELSE CsvCell(CHOOSE i \in hits : \A j \in hits : j <= i, name, FALSE)

C21_SlotField(rcid) ==
    IF C21_CsvLast(rcid, n_courseSlotCd) # <<>> THEN C21_CsvLast(rcid, n_courseSlotCd)
    ELSE IF C21_CodeIndex(rcid) # 0
         THEN strip(C21_JsonSlots(rcid)[C21_CodeIndex(rcid)].courseSlotCd)
    ELSE <<>>

C21_Segment(rcid) ==
    IF C21_CsvLast(rcid, n_segName) # <<>> THEN C21_CsvLast(rcid, n_segName)
    ELSE IF C21_SegIndex(rcid) # 0
         THEN strip(C21_JsonSlots(rcid)[C21_SegIndex(rcid)].segName)
    ELSE HeuristicSeg(rcid)

C21_PersistedOrder(rcid) ==
    LET slots == C21_JsonSlots(rcid) IN
    \A i \in 1..(Len(slots) - 1) :
        \/ LexLt(slots[i].courseSlotId, slots[i + 1].courseSlotId)
        \/ /\ slots[i].courseSlotId = slots[i + 1].courseSlotId
           /\ LexLt(slots[i].courseSlotCd, slots[i + 1].courseSlotCd)

C21_LastSlotWins ==
    (m_pc \in {"write", "exit"} /\ m_exc = "none") =>
        \A i \in 1..Len(m_courses) :
            /\ C21_PersistedOrder(m_courses[i].rcid)
            /\ m_courses[i].slots = C21_SlotField(m_courses[i].rcid)
            /\ m_courses[i].segment = C21_Segment(m_courses[i].rcid)

\* the table is written; a course has two slots in slots.json with different segment
\* names, it carries the later name, and its slot code comes from the earlier slot
C21_Witness ==
    /\ m_pc = "exit"
    /\ out_table.exists
    /\ \E i \in 1..Len(m_courses) :
          LET rcid  == m_courses[i].rcid
              slots == C21_JsonSlots(rcid)
          IN  /\ Len(slots) = 2
              /\ strip(slots[1].segName) # <<>>
              /\ strip(slots[2].segName) # <<>>
              /\ strip(slots[1].segName) # strip(slots[2].segName)
              /\ m_courses[i].segment = strip(slots[2].segName)
              /\ C21_CodeIndex(rcid) = 1
              /\ C21_SegIndex(rcid) = 2
              /\ m_courses[i].slots = strip(slots[1].courseSlotCd)
              /\ \E j \in 1..Len(out_table.rows) :
                    /\ out_table.rows[j].ccode = m_courses[i].ccode
                    /\ out_table.rows[j].segment = strip(slots[2].segName)
                    /\ out_table.rows[j].slots = strip(slots[1].courseSlotCd)

=============================================================================
